---- MODULE Spec2Model ----
(***************************************************************************)
(* Plan / Action execution core of the PIPO agent (src/core).              *)
(*                                                                         *)
(* Strings that the code formats (validation messages, str(e)) are         *)
(* sequences of string tokens: one token per literal piece and per         *)
(* interpolated value of the f-string.  The judge's reply is a sequence of *)
(* characters, because the code inspects it character by character.        *)
(* A Python dict is a function; dict iteration order (insertion order) is  *)
(* kept by modelling input_mapping as a sequence of <<param, source>>.     *)
(***************************************************************************)
EXTENDS Naturals, Sequences, FiniteSets

VARIABLES
  registry,        \* _ACTION_REGISTRY: action name -> class        (action.py:11)
  plan,            \* the Plan handed to validate / _execute_plan   (plan.py:19-24)
  pc,              \* position inside process_request / _execute_plan
  verdict,         \* the (is_valid, error) pair returned by Plan.validate
  judgeLog,        \* history: what each lf.query call of Plan.validate did (plan.py:93)
  ctx,             \* Agent._execution_context                      (agent.py:24,174)
  outputs,         \* local `outputs` of _execute_plan              (agent.py:173)
  cursor,          \* number of steps of the loop already finished  (agent.py:178)
  inputs,          \* the kwargs of the latest step.action.execute call (agent.py:190)
  calls,           \* history: the execute() calls issued, in order (agent.py:190)
  returned,        \* history: step number -> value its action returned
  summaryCalls,    \* history: number of summary lf.query calls     (agent.py:207)
  failure,         \* history: which call failed ("none" while nothing has)
  result,          \* the Result returned to the caller
  other,           \* locals of a second _execute_plan call on the same Agent
  registration,    \* history: the last register_action call     (action.py:13-28)
  instances,       \* step number -> field values of step.action  (plan.py:11, agent.py:129-150)
  runs,            \* history: the run() calls made by Action.execute (action.py:104,110)
  handed,          \* the dict a caller got from get_registered_actions, as the caller left it
  dyn,             \* one dynamic_solve call: its arguments, locals and outcome (naive_demo.py:66-87)
  stat,            \* one static_solve call: its locals and outcome    (naive_demo.py:89-167)
  app,             \* st.session_state of the Streamlit app           (app.py:181-192)
  actions,         \* local `actions` of _generate_plan: the registry copy (agent.py:76)
  gathered,        \* local `inputs` while input_mapping is read: entries read, values (agent.py:182-184)
  plan_dict        \* local `plan_dict` of _generate_plan: the proposer's answer (agent.py:111)

vars == <<registry, plan, pc, verdict, judgeLog, ctx, outputs, cursor,
          inputs, calls, returned, summaryCalls, failure, result, other,
          registration, instances, runs, handed, dyn, stat, app,
          actions, gathered, plan_dict>>

\* The variables written outside the Agent: by callers of the registry's
\* accessor, by the demo solvers and by the Streamlit app.
ext == <<handed, dyn, stat, app>>

\* The locals of the Agent's methods that are kept across a wait or between
\* two reads of the shared context.
loc == <<actions, gathered, plan_dict>>

\* The variables that the steps of _execute_plan leave alone.
aux == <<registration, instances, runs, ext, loc>>

-----------------------------------------------------------------------------
(* Bounds and input sets                                                   *)

MaxSteps == 3

\* Longest plan of the executions checked for termination.
MaxFairSteps == 2

\* Longest plan of steps whose class implements run.
MaxRunSteps == 2

\* Longest plan executed while the registry is written to.
MaxStableSteps == 1

\* Largest max_steps handed to dynamic_solve.
MaxDynamicSteps == 3

\* Longest plan proposed to static_solve and to the Streamlit app.
MaxStaticSteps == 2

\* Rounds of feedback followed in one static_solve call.
MaxRounds == 1

\* Longest plan dict the proposer answers with.
MaxProposedSteps == 2

\* The goal of the structured request, which the proposer copies into the plan.
Goal == "G"

\* Class names that the steps of a hand-built plan may carry.  "WebSearch"
\* is registered at import time (actions.py:12-13); "Teleport" is a class
\* nobody registered.
ActionNames == {"WebSearch", "Teleport"}

Keys == {"k1", "k2"}

OutputKeys == {""} \cup Keys

\* input_mapping dicts, in insertion order.
InputMappings ==
  { <<>>,
    << <<"q", "k1">> >>,
    << <<"lm", "k2">> >>,
    << <<"q", "k1">>, <<"lm", "k2">> >> }

Values == {"a", "b"}

\* str(e) of the exceptions an action, the judge or the summarizer may raise.
ErrorTexts == { <<"boom">> }

\* str(e) of what an action may raise: as ErrorTexts, or a KeyError of its
\* own making, whose text is the quoted key.
ActionErrorTexts == ErrorTexts \cup { <<"'", "k1", "'">> }

Summaries == {"summary"}

\* The language-model handle held by the Agent (agent.py:23).
LM == "LM"

\* The lm argument of plan.validate(lm=None): a language model, or nothing.
NoLM == "None"

LmArguments == {LM, NoLM}

\* plan.py:53, lm = lm or lf.get_lm(): with no lm passed, the library is
\* asked for a default model, and either returns one or raises (none is
\* configured).
GetLmOutcomes == {"returns", "raises"}

\* Replies of the reasonableness judge, character by character.
JudgeReplies ==
  { <<"Y","e","s">>,
    <<"Y","E","S",".">>,
    <<"N","o">>,
    <<"N","o",","," ","b","a","d">>,
    <<"n","o","p","e">>,
    <<" ","Y","e","s">> }

JudgeOutcomes ==
  [raises : {FALSE}, text : JudgeReplies] \cup [raises : {TRUE}, text : ErrorTexts]

PlanSteps == [action : ActionNames, input_mapping : InputMappings, output_key : OutputKeys]

SeqsUpTo(S, n) == UNION { [1..k -> S] : k \in 0..n }

Plans == [goal : {Goal}, steps : SeqsUpTo(PlanSteps, MaxSteps)]

\* Registry contents at the end of start-up: the five classes that
\* src/actions.py decorates with @register_action(), each under its class
\* name (actions.py:12,43,72,103,141; action.py:13-28).
StartupRegistry ==
  [n \in {"WebSearch", "FetchWebContent", "ExtractEntities", "SummarizeText",
          "GenerateReport"} |-> n]

\* The registry of a process that has not imported src/actions.py.
EmptyRegistry == [n \in {} |-> "WebSearch"]

\* The startup registry after a caller registered Teleport as well.
FullRegistry == [n \in (DOMAIN StartupRegistry) \cup ActionNames |-> n]

Registries == {StartupRegistry, EmptyRegistry, FullRegistry}

\* action.py:32: the entries of the dict get_registered_actions returns.
get_registered_actions(reg) == reg

-----------------------------------------------------------------------------
(* Python string helpers used by Plan.validate                             *)

NumStr == <<"1", "2", "3", "4", "5", "6", "7", "8", "9">>

\* str.lower() on one character.
LowerChar(c) ==
  CASE c = "Y" -> "y"
    [] c = "E" -> "e"
    [] c = "S" -> "s"
    [] c = "N" -> "n"
    [] c = "O" -> "o"
    [] OTHER   -> c

Lower(s) == [i \in 1..Len(s) |-> LowerChar(s[i])]

StartsWith(s, prefix) ==
  /\ Len(s) >= Len(prefix)
  /\ \A i \in 1..Len(prefix) : s[i] = prefix[i]

Drop(s, n) == IF n >= Len(s) THEN <<>> ELSE SubSeq(s, n + 1, Len(s))

RECURSIVE LStripChars(_, _)
\* str.lstrip(chars)
LStripChars(s, chars) ==
  IF s # <<>> /\ s[1] \in chars THEN LStripChars(Tail(s), chars) ELSE s

RECURSIVE RStripChars(_, _)
RStripChars(s, chars) ==
  IF s # <<>> /\ s[Len(s)] \in chars
    THEN RStripChars(SubSeq(s, 1, Len(s) - 1), chars)
    ELSE s

Whitespace == {" "}

\* str.strip()
Strip(s) == RStripChars(LStripChars(s, Whitespace), Whitespace)

\* s.split('No', 1)[-1]: what follows the first "No", or all of s if none.
AfterFirstNo(s) ==
  LET hits == { i \in 1..(Len(s) - 1) : s[i] = "N" /\ s[i + 1] = "o" }
  IN  IF hits = {} THEN s
      ELSE LET first == CHOOSE i \in hits : \A j \in hits : i <= j
           IN  Drop(s, first + 1)

\* plan.py:95
Explanation(reply) ==
  Strip(LStripChars(LStripChars(Strip(AfterFirstNo(reply)), {","}), {"."}))

-----------------------------------------------------------------------------
(* Plan.validate (plan.py:43-102)                                          *)

NoStepsMsg == <<"Plan Validation Failed: Plan has no steps.">>

UnknownActionMsg(name, n) ==
  <<"Plan Validation Failed: Action '", name, "' in step ", NumStr[n],
    " not found in the registry.">>

MissingInputMsg(n, name, param, source) ==
  <<"Plan Validation Failed: Step ", NumStr[n], " ('", name,
    "') requires input '", param, "' from source '", source,
    "', which is not available from previous steps.">>

DuplicateKeyMsg(key, n, name) ==
  <<"Plan Validation Failed: Output key '", key, "' in step ", NumStr[n],
    " ('", name, "') is already used by a previous step.">>

UnreasonableMsg(explanation) ==
  <<"Plan Validation Failed: Plan deemed unreasonable by LLM. Reason: ">>
    \o (IF explanation # <<>> THEN explanation
        ELSE <<"No specific reason provided.">>)

JudgeErrorMsg(e) ==
  <<"Plan Validation Failed: Error during LLM reasonableness check: ">> \o e

SuccessMsg == <<"Plan validation successful.">>

Reject(msg) == [ok |-> FALSE, message |-> msg]

Accept == [ok |-> TRUE, message |-> SuccessMsg]

RECURSIVE FirstMissingInputMutant(_, _, _)
\* Mutant: only the first entry of input_mapping is checked.
FirstMissingInputMutant(mapping, available, j) ==
  IF j > Len(mapping) \/ j > 1 THEN 0
  ELSE IF mapping[j][2] \notin available THEN j
  ELSE FirstMissingInputMutant(mapping, available, j + 1)

RECURSIVE FirstMissingInput(_, _, _)
\* plan.py:72-74: position of the first input_mapping entry, from position j
\* on, whose source is not in available_outputs; 0 if there is none.
FirstMissingInput(mapping, available, j) ==
  IF j > Len(mapping) THEN 0
  ELSE IF mapping[j][2] \notin available THEN j
  ELSE FirstMissingInput(mapping, available, j + 1)

\* Mutant: no duplicate-output-key check.
OutputKeyUsedNever(key, available) == FALSE

\* plan.py:77-78: the step has an output key and it is already taken.
OutputKeyUsed(key, available) == key # "" /\ key \in available

\* plan.py:77,80: available_outputs after the step.
AddOutput(key, available) == IF key # "" THEN available \cup {key} ELSE available

\* Mutant: the registry lookup always succeeds.
InRegistryAlways(name, reg) == TRUE

\* plan.py:68
InRegistry(name, reg) == name \in DOMAIN reg

RECURSIVE WalkStepsOutputFirst(_, _, _, _)
\* Mutant: the step's output key is made available before its inputs are
\* checked, so a step may consume its own output.
WalkStepsOutputFirst(steps, reg, i, available) ==
  IF i > Len(steps) THEN Accept
  ELSE
    LET step == steps[i]
        name == step.action
        avail2 == AddOutput(step.output_key, available)
        bad  == FirstMissingInput(step.input_mapping, avail2, 1)
    IN  IF ~InRegistry(name, reg) THEN Reject(UnknownActionMsg(name, i))
        ELSE IF bad # 0 THEN
          Reject(MissingInputMsg(i, name, step.input_mapping[bad][1],
                                 step.input_mapping[bad][2]))
        ELSE IF OutputKeyUsed(step.output_key, available) THEN
          Reject(DuplicateKeyMsg(step.output_key, i, name))
        ELSE WalkStepsOutputFirst(steps, reg, i + 1, avail2)

RECURSIVE WalkStepsDuplicateFirst(_, _, _, _)
\* Mutant: a step's output key is checked before its inputs.
WalkStepsDuplicateFirst(steps, reg, i, available) ==
  IF i > Len(steps) THEN Accept
  ELSE
    LET step == steps[i]
        name == step.action
        bad  == FirstMissingInput(step.input_mapping, available, 1)
    IN  IF ~InRegistry(name, reg) THEN Reject(UnknownActionMsg(name, i))
        ELSE IF OutputKeyUsed(step.output_key, available) THEN
          Reject(DuplicateKeyMsg(step.output_key, i, name))
        ELSE IF bad # 0 THEN
          Reject(MissingInputMsg(i, name, step.input_mapping[bad][1],
                                 step.input_mapping[bad][2]))
        ELSE WalkStepsDuplicateFirst(steps, reg, i + 1,
                                     AddOutput(step.output_key, available))

RECURSIVE WalkSteps(_, _, _, _)
\* plan.py:63-80: the loop over the steps from step i (1-based) on, with
\* available_outputs = available.
WalkSteps(steps, reg, i, available) ==
  IF i > Len(steps) THEN Accept
  ELSE
    LET step == steps[i]
        name == step.action
        bad  == FirstMissingInput(step.input_mapping, available, 1)
    IN  IF ~InRegistry(name, reg) THEN Reject(UnknownActionMsg(name, i))
        ELSE IF bad # 0 THEN
          Reject(MissingInputMsg(i, name, step.input_mapping[bad][1],
                                 step.input_mapping[bad][2]))
        ELSE IF OutputKeyUsed(step.output_key, available) THEN
          Reject(DuplicateKeyMsg(step.output_key, i, name))
        ELSE WalkSteps(steps, reg, i + 1, AddOutput(step.output_key, available))

\* plan.py:52-80: the structural half of validate.
StructuralCheck(p, reg) ==
  IF Len(p.steps) = 0 THEN Reject(NoStepsMsg)
  ELSE WalkSteps(p.steps, reg, 1, {})

\* Mutant: the reply is compared without lower-casing it.
AffirmativeCaseSensitive(reply) == StartsWith(reply, <<"y", "e", "s">>)

\* plan.py:94
Affirmative(reply) == StartsWith(Lower(reply), <<"y", "e", "s">>)

\* Mutant: a failed judge call counts as approval.
JudgeVerdictIgnoresFailure(outcome) ==
  IF outcome.raises THEN Accept
  ELSE IF ~Affirmative(outcome.text) THEN
    Reject(UnreasonableMsg(Explanation(outcome.text)))
  ELSE Accept

\* plan.py:92-102: the reasonableness half, given what lf.query did.
JudgeVerdict(outcome) ==
  IF outcome.raises THEN Reject(JudgeErrorMsg(outcome.text))
  ELSE IF ~Affirmative(outcome.text) THEN
    Reject(UnreasonableMsg(Explanation(outcome.text)))
  ELSE Accept

-----------------------------------------------------------------------------
(* Result (result.py:9-20)                                                 *)

\* error=None
None == [set |-> FALSE, text |-> <<>>]

\* error=<a str>
Str(tokens) == [set |-> TRUE, text |-> tokens]

EmptyDict == <<>>

\* d[k] = v
Put(d, k, v) == [x \in (DOMAIN d) \cup {k} |-> IF x = k THEN v ELSE d[x]]

\* result.py:17-20
success(r) == r.error = None

NoResult == [summary |-> "", raw_outputs |-> EmptyDict, error |-> None,
             metadata |-> EmptyDict]

-----------------------------------------------------------------------------
(* Agent._execute_plan (agent.py:164-235)                                  *)

\* f"step_{i+1}" for the step at 0-based index i, n = i + 1
StepKey(n) == <<"step_", NumStr[n]>>

\* str(KeyError(key))
KeyErrorText(key) == <<"'", key, "'">>

\* Mutant: the value is read under another key of the context, if there is one.
ReadContextOtherKey(context, source) ==
  context[CHOOSE k \in DOMAIN context : k # source \/ DOMAIN context = {source}]

\* agent.py:184, the read self._execution_context[source]
ReadContext(context, source) == context[source]

\* agent.py:182: inputs = {}, and no entry of input_mapping read yet.
NoneGathered == [read |-> 0, inputs |-> EmptyDict]

\* Mutant: a source missing from the context is passed over.
MapInputSkipMissing(mapping, context, j, acc) ==
  IF mapping[j][2] \notin DOMAIN context
    THEN [raised |-> FALSE, key |-> "", inputs |-> acc]
  ELSE [raised |-> FALSE, key |-> "",
        inputs |-> Put(acc, mapping[j][1], context[mapping[j][2]])]

\* agent.py:183-184: one turn of the loop over input_mapping, for entry j
\* with the inputs gathered so far: one read of the context, which raises
\* KeyError when the source is missing from it.
MapInput(mapping, context, j, acc) ==
  IF mapping[j][2] \notin DOMAIN context
    THEN [raised |-> TRUE, key |-> mapping[j][2], inputs |-> acc]
  ELSE [raised |-> FALSE, key |-> "",
        inputs |-> Put(acc, mapping[j][1], ReadContext(context, mapping[j][2]))]

\* Mutant: the handle is added only when no input is named 'lm'.
AddLanguageModelIfAbsent(ins) == IF "lm" \in DOMAIN ins THEN ins ELSE Put(ins, "lm", LM)

\* agent.py:187, inputs['lm'] = self.lm
AddLanguageModel(ins) == Put(ins, "lm", LM)

\* Mutant: the partial outputs are dropped from a failed Result.
FailedResultNoOutputs(p, outs, e) ==
  [summary     |-> "Plan execution failed",
   raw_outputs |-> EmptyDict,
   error       |-> Str(e),
   metadata    |-> [goal |-> p.goal, completed_steps |-> Cardinality(DOMAIN outs)]]

\* Mutant: completed_steps is the length of the plan.
FailedResultAllSteps(p, outs, e) ==
  [summary     |-> "Plan execution failed",
   raw_outputs |-> outs,
   error       |-> Str(e),
   metadata    |-> [goal |-> p.goal, completed_steps |-> Len(p.steps)]]

\* agent.py:225-235
FailedResult(p, outs, e) ==
  [summary     |-> "Plan execution failed",
   raw_outputs |-> outs,
   error       |-> Str(e),
   metadata    |-> [goal |-> p.goal, completed_steps |-> Cardinality(DOMAIN outs)]]

\* agent.py:215-223
CompletedResult(p, outs, s) ==
  [summary     |-> s,
   raw_outputs |-> outs,
   error       |-> Str(<<>>),
   metadata    |-> [goal |-> p.goal, num_steps |-> Len(p.steps)]]

\* Mutant: the validator's message is not carried into the Result.
ValidationFailedResultNoMessage(requestGoal, msg) ==
  [summary     |-> "Plan validation failed",
   raw_outputs |-> EmptyDict,
   error       |-> Str(<<"Plan validation failed">>),
   metadata    |-> [request |-> requestGoal]]

\* agent.py:47-52; requestGoal is structured_request.goal
ValidationFailedResult(requestGoal, msg) ==
  [summary     |-> "Plan validation failed",
   raw_outputs |-> EmptyDict,
   error       |-> Str(msg),
   metadata    |-> [request |-> requestGoal]]

\* The raw text handed to process_request (agent.py:26).
RequestText == "R"

\* The plan of a request for which the proposer has not answered yet.
NoPlan == [goal |-> Goal, steps |-> <<>>]

\* agent.py:57-64: the Result built by process_request's except clause.
RequestFailedResult(request, e) ==
  [summary     |-> "Request processing failed",
   raw_outputs |-> EmptyDict,
   error       |-> Str(e),
   metadata    |-> [request |-> request]]

\* agent.py:125, str(ValueError(f"Unknown action: {action_name}"))
UnknownActionError(name) == <<"Unknown action: ", name>>

\* The fields of a hand-built instance of the two classes hand-built plans
\* carry: WebSearch(query="", num_results=5), and Teleport(q=""), a subclass
\* that implements run(self, lm) and declares the one field q.
ConstructedFields(cls) ==
  IF cls = "WebSearch" THEN [query |-> "", num_results |-> 5]
  ELSE [q |-> ""]

\* actions.py:16-20,47,76-80,107-115,145-150: the fields each registered
\* class declares, in the order of the class body, and the one field of
\* Teleport.
DeclaredFields(cls) ==
  CASE cls = "WebSearch"       -> <<"query", "num_results">>
    [] cls = "FetchWebContent" -> <<"url">>
    [] cls = "ExtractEntities" -> <<"text", "entity_types">>
    [] cls = "SummarizeText"   -> <<"text", "max_length", "focus_points">>
    [] cls = "GenerateReport"  -> <<"title", "findings", "sections">>
    [] OTHER                   -> <<"q">>

\* The annotation of each declared field (same lines).
FieldTypes(cls) ==
  CASE cls = "WebSearch"       -> [query |-> "str", num_results |-> "int"]
    [] cls = "FetchWebContent" -> [url |-> "str"]
    [] cls = "ExtractEntities" -> [text |-> "str", entity_types |-> "list"]
    [] cls = "SummarizeText"   -> [text |-> "str", max_length |-> "int",
                                   focus_points |-> "list"]
    [] cls = "GenerateReport"  -> [title |-> "str", findings |-> "list",
                                   sections |-> "list"]
    [] OTHER                   -> [q |-> "str"]

\* The fields declared with a default, and that default (same lines); a field
\* declared without one has to be given to the constructor.
FieldDefaults(cls) ==
  CASE cls = "WebSearch"       -> [num_results |-> 5]
    [] cls = "ExtractEntities" -> [entity_types |-> <<"PRODUCT", "COMPANY", "DATE">>]
    [] cls = "SummarizeText"   -> [max_length |-> 200, focus_points |-> "None"]
    [] cls = "GenerateReport"  ->
         [sections |-> <<"Overview", "Key Findings", "Analysis", "Conclusion">>]
    [] OTHER                   -> EmptyDict

\* What the pyglove build in use decides: the public properties pg.Object
\* gives every subclass next to those of its declared fields (none, or
\* some, all named sym_..., for which sym_parent stands), and whether a
\* constructor raises for a keyword that is no field or of another type
\* than the field's, or drops the one and stores the other.
Libraries == [properties : { {}, {"sym_parent"} }, strict : BOOLEAN]

\* action.py:84-85 and agent.py:142-143: the names in dir(cls) that are
\* properties of the class, the inherited ones included.
property_names(cls, lib) ==
  { DeclaredFields(cls)[i] : i \in 1..Len(DeclaredFields(cls)) } \cup lib.properties

\* The names of dir(cls), which is sorted.
SortedNames ==
  <<"entity_types", "findings", "focus_points", "max_length", "num_results", "q",
    "query", "sections", "sym_parent", "text", "title", "url">>

\* agent.py:130-148: the keyword arguments the conversion of a step named
\* `name` passes to the constructor of cls, in the order it passes them, as
\* <<keyword, value, type of the value>>.  The branch is chosen by the
\* name; a name without a branch of its own takes the generic one, which
\* passes "" for every public property of the class.
action_params(name, cls, lib) ==
  CASE name = "WebSearch"       -> << <<"query", "", "str">>, <<"num_results", 5, "int">> >>
    [] name = "FetchWebContent" -> << <<"url", "", "str">> >>
    [] name = "ExtractEntities" -> << <<"text", "", "str">> >>
    [] name = "GenerateReport"  -> << <<"entities", <<>>, "list">>,
                                      <<"style", "formal", "str">> >>
    [] OTHER ->
         LET props == SelectSeq(SortedNames, LAMBDA p : p \in property_names(cls, lib))
         IN  [i \in 1..Len(props) |-> <<props[i], "", "str">>]

\* agent.py:131-137,149: action_cls(**params).  A strict constructor raises
\* TypeError for the first keyword that is no declared field, then for the
\* first value of another type than its field's; a lenient one drops the
\* one and stores the other.  Either raises when a field declared without
\* default gets no keyword; a field with a default and no keyword keeps
\* the default.
Construct(cls, params, lib) ==
  LET declared   == { DeclaredFields(cls)[i] : i \in 1..Len(DeclaredFields(cls)) }
      given      == { params[i][1] : i \in 1..Len(params) }
      unexpected == SelectSeq(params, LAMBDA kv : kv[1] \notin declared)
      mistyped   == SelectSeq(params, LAMBDA kv : /\ kv[1] \in declared
                                                  /\ FieldTypes(cls)[kv[1]] # kv[3])
      missing    == SelectSeq(DeclaredFields(cls),
                              LAMBDA f : /\ f \notin given
                                         /\ f \notin DOMAIN FieldDefaults(cls))
      Raise(e)   == [raised |-> TRUE, error |-> e, fields |-> <<>>]
  IN  IF unexpected # <<>> /\ lib.strict
        THEN Raise(<<cls, ".__init__() got an unexpected keyword argument '",
                     unexpected[1][1], "'">>)
      ELSE IF mistyped # <<>> /\ lib.strict
        THEN Raise(<<cls, ".__init__() expected ", FieldTypes(cls)[mistyped[1][1]],
                     " for '", mistyped[1][1], "', got ", mistyped[1][3]>>)
      ELSE IF missing # <<>>
        THEN Raise(<<cls, ".__init__() missing required argument '", missing[1], "'">>)
      ELSE [raised |-> FALSE,
            error  |-> <<>>,
            fields |-> [f \in declared |->
                          IF f \in given
                            THEN params[CHOOSE i \in 1..Len(params) : params[i][1] = f][2]
                            ELSE FieldDefaults(cls)[f]]]

\* agent.py:128-149: the class stored under the step's name in the registry
\* copy, constructed with the keywords of the name's branch.
Converted(name, reg, lib) == Construct(reg[name], action_params(name, reg[name], lib), lib)

\* Action names a proposed plan dict may carry: WebSearch and GenerateReport
\* are registered at import time, Teleport is not.
ProposalNames == {"WebSearch", "GenerateReport", "Teleport"}

\* The step dicts of the plan dict that lf.query(prompt, dict) returns
\* (agent.py:111-118).  `absent` is the key of the schema of agent.py:98-103
\* that the dict lacks, "" for a dict that has all four; the record of a
\* dict that lacks a key carries an empty mapping and an empty output key,
\* which are never read.
ProposedSteps ==
  [action : ProposalNames, input_mapping : InputMappings,
   output_key : OutputKeys, absent : {""}]
  \cup [action : ProposalNames, input_mapping : { <<>> }, output_key : {""},
        absent : {"action", "description", "input_mapping", "output_key"}]

\* The plan dicts the proposer may answer with.
Proposals == [goal : {Goal}, steps : SeqsUpTo(ProposedSteps, MaxProposedSteps)]

\* The proposer has not answered.
NoProposal == [given |-> FALSE, dict |-> NoPlan]

\* Mutant: the ValueError does not name the action.
ConversionErrorUnnamed(step_dict, reg, lib) ==
  IF step_dict.absent = "action" THEN KeyErrorText("action")
  ELSE IF step_dict.action \notin DOMAIN reg THEN <<"Unknown action: ">>
  ELSE IF Converted(step_dict.action, reg, lib).raised
    THEN Converted(step_dict.action, reg, lib).error
  ELSE IF step_dict.absent # "" THEN KeyErrorText(step_dict.absent)
  ELSE <<>>

\* agent.py:123-156: str of what one pass of the conversion loop raises for
\* step_dict, <<>> when it raises nothing.  In the order of the code: the
\* KeyError of step_dict["action"] (:123), the ValueError for a name that
\* is no key of the registry copy (:124-125), what the constructor raises
\* (:130-149), the KeyError of step_dict["description"],
\* step_dict["input_mapping"] or step_dict["output_key"] (:153-155).
ConversionError(step_dict, reg, lib) ==
  IF step_dict.absent = "action" THEN KeyErrorText("action")
  ELSE IF step_dict.action \notin DOMAIN reg THEN UnknownActionError(step_dict.action)
  ELSE IF Converted(step_dict.action, reg, lib).raised
    THEN Converted(step_dict.action, reg, lib).error
  ELSE IF step_dict.absent # "" THEN KeyErrorText(step_dict.absent)
  ELSE <<>>

\* agent.py:122-156: the steps of the proposed dict at which the conversion
\* loop would raise; it raises at the first of them.
UnconvertibleSteps(answer, reg, lib) ==
  { n \in 1..Len(answer.steps) : ConversionError(answer.steps[n], reg, lib) # <<>> }

\* Mutant: the output is recorded in raw_outputs but not in the context.
StoreContextNever(context, key, v) == context

\* Mutant: storing an output starts the context afresh.
StoreContextFresh(context, key, v) ==
  IF key # "" THEN Put(EmptyDict, key, v) ELSE context

\* agent.py:193-194
StoreContext(context, key, v) == IF key # "" THEN Put(context, key, v) ELSE context

\* Mutant: a step without output_key is recorded in raw_outputs too.
StoreOutputAlways(outs, key, n, v) == Put(outs, StepKey(n), v)

\* Mutant: raw_outputs is keyed by the step's output_key.
StoreOutputByKey(outs, key, n, v) == IF key # "" THEN Put(outs, key, v) ELSE outs

\* agent.py:193,195
StoreOutput(outs, key, n, v) == IF key # "" THEN Put(outs, StepKey(n), v) ELSE outs

\* No caller holds a dict from get_registered_actions.
NoDict == [given |-> FALSE, dict |-> <<>>]

\* No dynamic_solve call, no static_solve call, no Streamlit session.
NoDyn == [pc |-> "idle"]

NoStat == [pc |-> "idle"]

NoApp == [workflow_stage |-> "none"]

\* Nothing outside the Agent and the registry has happened yet.
ExtIdle == handed = NoDict /\ dyn = NoDyn /\ stat = NoStat /\ app = NoApp

\* No register_action call has been made yet.
NoRegistration ==
  [name |-> "", cls |-> "", raised |-> FALSE, error |-> <<>>, before |-> <<>>]

\* The Action instances owned by the steps of plan p, as constructed.
Constructed(p) == [n \in 1..Len(p.steps) |-> ConstructedFields(p.steps[n].action)]

\* No second _execute_plan call is in progress on the Agent.
NoOther ==
  [pc |-> "idle", cursor |-> 0, gathered |-> NoneGathered, outputs |-> EmptyDict,
   inputs |-> EmptyDict, returned |-> EmptyDict, failure |-> "none", result |-> NoResult]

-----------------------------------------------------------------------------
(* The state machine                                                       *)

\* Either process_request was just called with a raw request (agent.py:26),
\* or a caller holds a Plan it built itself (any step classes, registered or
\* not) and is about to validate and execute it.
Init ==
  /\ registry \in Registries
  /\ \/ pc = "received" /\ plan = NoPlan
     \/ /\ pc = "pending"
        /\ plan \in Plans
        /\ registry = StartupRegistry \/ Len(plan.steps) <= 1
  /\ verdict = Reject(<<>>)
  /\ judgeLog = <<>>
  /\ ctx = EmptyDict
  /\ outputs = EmptyDict
  /\ cursor = 0
  /\ inputs = EmptyDict
  /\ calls = <<>>
  /\ returned = EmptyDict
  /\ summaryCalls = 0
  /\ failure = "none"
  /\ result = NoResult
  /\ other = NoOther
  /\ registration = NoRegistration
  /\ ExtIdle
  /\ actions = EmptyDict
  /\ gathered = NoneGathered
  /\ plan_dict = NoProposal
  /\ instances = Constructed(plan)
  /\ runs = <<>>

\* Mutant: the loop is never left.
AfterStepStays(n) == "loop"

\* agent.py:207: the loop is over, the summary query is issued.
AfterStep(n) == IF n >= Len(plan.steps) THEN "summary" ELSE "loop"

\* agent.py:38-42,76-111: Request.from_text returned the structured
\* request; _generate_plan takes its copy of the registry and asks the
\* proposer.
ParseReturns ==
  /\ pc = "received"
  /\ pc' = "parsed"
  /\ actions' = get_registered_actions(registry)
  /\ UNCHANGED <<registry, plan, verdict, judgeLog, ctx, outputs, cursor,
                 inputs, calls, returned, summaryCalls, failure, result>>
  /\ UNCHANGED <<other, registration, instances, runs, ext, gathered, plan_dict>>

\* Mutant: the parser's exception leaves process_request; no Result is built.
ParseRaisesEscapes ==
  /\ pc = "received"
  /\ \E e \in ErrorTexts :
       /\ failure' = "parser"
       /\ pc' = "done"
  /\ UNCHANGED <<registry, plan, verdict, judgeLog, ctx, outputs, cursor,
                 inputs, calls, returned, summaryCalls, result>>
  /\ UNCHANGED <<other, aux>>

\* agent.py:38,57-64: Request.from_text raised.
ParseRaises ==
  /\ pc = "received"
  /\ \E e \in ErrorTexts :
       /\ result' = RequestFailedResult(RequestText, e)
       /\ failure' = "parser"
       /\ pc' = "done"
  /\ UNCHANGED <<registry, plan, verdict, judgeLog, ctx, outputs, cursor,
                 inputs, calls, returned, summaryCalls>>
  /\ UNCHANGED <<other, aux>>

\* agent.py:42,111-162: the proposer answered with a plan dict, which is
\* converted step by step against the registry copy taken before the query:
\* each step gets an instance of the class the copy holds under the step's
\* action name.  The first step at which the conversion raises ends the
\* request, the exception being caught at agent.py:57-64.
ProposeReturns ==
  /\ pc = "parsed"
  /\ \E answer \in Proposals, lib \in Libraries :
       /\ plan_dict' = [given |-> TRUE, dict |-> answer]
       /\ LET bad == UnconvertibleSteps(answer, actions, lib)
          IN  IF bad # {}
                THEN /\ result' = RequestFailedResult(RequestText,
                          ConversionError(
                            answer.steps[CHOOSE n \in bad : \A m \in bad : n <= m],
                            actions, lib))
                     /\ failure' = "proposer"
                     /\ pc' = "done"
                     /\ plan' = plan
                     /\ instances' = instances
                ELSE /\ plan' = [goal  |-> answer.goal,
                                 steps |-> [n \in 1..Len(answer.steps) |->
                                   [action        |-> actions[answer.steps[n].action],
                                    input_mapping |-> answer.steps[n].input_mapping,
                                    output_key    |-> answer.steps[n].output_key]]]
                     /\ instances' = [n \in 1..Len(answer.steps) |->
                                        Converted(answer.steps[n].action, actions, lib).fields]
                     /\ pc' = "pending"
                     /\ UNCHANGED <<result, failure>>
  /\ UNCHANGED <<registry, verdict, judgeLog, ctx, outputs, cursor,
                 inputs, calls, returned, summaryCalls>>
  /\ UNCHANGED <<other, registration, runs, ext, actions, gathered>>

\* agent.py:42,109,57-64: the proposer's query raised.
ProposeRaises ==
  /\ pc = "parsed"
  /\ \E e \in ErrorTexts :
       /\ result' = RequestFailedResult(RequestText, e)
       /\ failure' = "proposer"
       /\ pc' = "done"
  /\ UNCHANGED <<registry, plan, verdict, judgeLog, ctx, outputs, cursor,
                 inputs, calls, returned, summaryCalls>>
  /\ UNCHANGED <<other, aux>>

\* process_request's validate call up to its wait (agent.py:45,
\* plan.py:52-93), plan.validate(lm=self.lm).  validate takes a copy of the
\* registry and then evaluates lm = lm or lf.get_lm() (plan.py:53): the
\* argument is the handle Agent.__init__ was given (agent.py:17-23), so
\* lf.get_lm() is asked only were that handle None, and a raise of it would
\* be caught at agent.py:57-64.  Then validate walks the steps; a plan that
\* fails a structural check is rejected at once and ends the request
\* (agent.py:46-52), any other plan is put to the judge.
Validate ==
  /\ pc = "pending"
  /\ \E lm \in {LM}, got \in GetLmOutcomes, e \in ErrorTexts :
       IF lm = NoLM /\ got = "raises"
         THEN /\ pc' = "done"
              /\ result' = RequestFailedResult(RequestText, e)
              /\ failure' = "get_lm"
              /\ UNCHANGED verdict
         ELSE LET s == StructuralCheck(plan, get_registered_actions(registry))
              IN  IF s.ok
                    THEN /\ pc' = "judging"
                         /\ UNCHANGED <<verdict, result, failure>>
                    ELSE /\ verdict' = s
                         /\ pc' = "done"
                         /\ result' = ValidationFailedResult(Goal, s.message)
                         /\ failure' = "validation"
  /\ UNCHANGED <<registry, plan, judgeLog, ctx, outputs, cursor, inputs, calls,
                 returned, summaryCalls>>
  /\ UNCHANGED <<other, aux>>

\* plan.py:93-102, agent.py:46-55,173-174: the judge's query returned or
\* raised.  The verdict is computed from the reply alone.  A rejected plan
\* ends the request; an accepted one enters _execute_plan, which resets
\* outputs and the execution context and starts its loop.
JudgeAnswers ==
  /\ pc = "judging"
  /\ \E outcome \in JudgeOutcomes :
       LET v == JudgeVerdict(outcome)
       IN  /\ verdict' = v
           /\ judgeLog' = Append(judgeLog, outcome)
           /\ IF v.ok
                THEN /\ outputs' = EmptyDict
                     /\ ctx' = EmptyDict
                     /\ cursor' = 0
                     /\ pc' = AfterStep(0)
                     /\ summaryCalls' = IF AfterStep(0) = "summary" THEN summaryCalls + 1
                                        ELSE summaryCalls
                     /\ UNCHANGED <<result, failure>>
                ELSE /\ pc' = "done"
                     /\ result' = ValidationFailedResult(Goal, v.message)
                     /\ failure' = "validation"
                     /\ UNCHANGED <<outputs, ctx, cursor, summaryCalls>>
  /\ UNCHANGED <<registry, plan, inputs, calls, returned>>
  /\ UNCHANGED <<other, aux>>

\* Mutant: the failing step is skipped and the loop goes on.
ActionRaisesContinue ==
  /\ pc = "call"
  /\ \E e \in ActionErrorTexts :
       /\ failure' = "action"
       /\ cursor' = cursor + 1
       /\ pc' = AfterStep(cursor + 1)
       /\ summaryCalls' = IF AfterStep(cursor + 1) = "summary" THEN summaryCalls + 1
                          ELSE summaryCalls
  /\ UNCHANGED <<registry, plan, verdict, judgeLog, ctx, outputs, inputs,
                 calls, returned, result>>
  /\ UNCHANGED <<other, aux>>

\* agent.py:178-190: one loop iteration up to the call of the action, one
\* read of self._execution_context at a time.  At "loop" the iteration
\* starts (inputs = {}) and reads the first entry of input_mapping, at "map"
\* it reads the next one; another thread may run between two reads.  A
\* source missing from the context raises KeyError inside the try block;
\* after the last entry the handle is added and execute is called.
ResolveAndCall ==
  /\ pc \in {"loop", "map"}
  /\ cursor < Len(plan.steps)
  /\ LET step    == plan.steps[cursor + 1]
         mapping == step.input_mapping
         sofar   == IF pc = "loop" THEN NoneGathered ELSE gathered
         j       == sofar.read + 1
         m       == IF j > Len(mapping)
                      THEN [raised |-> FALSE, key |-> "", inputs |-> sofar.inputs]
                      ELSE MapInput(mapping, ctx, j, sofar.inputs)
     IN  IF m.raised
           THEN /\ pc' = "done"
                /\ failure' = "key_error"
                /\ result' = FailedResult(plan, outputs, KeyErrorText(m.key))
                /\ gathered' = sofar
                /\ UNCHANGED <<inputs, calls>>
           ELSE IF j < Len(mapping)
           THEN /\ pc' = "map"
                /\ gathered' = [read |-> j, inputs |-> m.inputs]
                /\ UNCHANGED <<inputs, calls, failure, result>>
           ELSE /\ inputs' = AddLanguageModel(m.inputs)
                /\ calls' = Append(calls, [step |-> cursor + 1,
                                           kwargs |-> AddLanguageModel(m.inputs)])
                /\ pc' = "call"
                /\ gathered' = [read |-> Len(mapping), inputs |-> m.inputs]
                /\ UNCHANGED <<failure, result>>
  /\ UNCHANGED <<registry, plan, verdict, judgeLog, ctx, outputs, cursor,
                 returned, summaryCalls>>
  /\ UNCHANGED <<other, registration, instances, runs, ext, actions, plan_dict>>

\* agent.py:190-195: the action returned v; the output is stored and the loop
\* moves on (to the summary query after the last step, agent.py:207).
ActionReturns ==
  /\ pc = "call"
  /\ \E v \in Values :
       LET n   == cursor + 1
           key == plan.steps[n].output_key
       IN  /\ returned' = Put(returned, n, v)
           /\ ctx' = StoreContext(ctx, key, v)
           /\ outputs' = StoreOutput(outputs, key, n, v)
           /\ cursor' = n
           /\ pc' = AfterStep(n)
           /\ summaryCalls' = IF AfterStep(n) = "summary" THEN summaryCalls + 1
                              ELSE summaryCalls
  /\ UNCHANGED <<registry, plan, verdict, judgeLog, inputs, calls, failure, result>>
  /\ UNCHANGED <<other, aux>>

\* agent.py:190,225-235: the action raised.
ActionRaises ==
  /\ pc = "call"
  /\ \E e \in ActionErrorTexts :
       /\ result' = FailedResult(plan, outputs, e)
       /\ failure' = "action"
       /\ pc' = "done"
  /\ UNCHANGED <<registry, plan, verdict, judgeLog, ctx, outputs, cursor,
                 inputs, calls, returned, summaryCalls>>
  /\ UNCHANGED <<other, aux>>

\* agent.py:207-223
SummaryReturns ==
  /\ pc = "summary"
  /\ \E s \in Summaries :
       /\ result' = CompletedResult(plan, outputs, s)
       /\ pc' = "done"
  /\ UNCHANGED <<registry, plan, verdict, judgeLog, ctx, outputs, cursor,
                 inputs, calls, returned, summaryCalls, failure>>
  /\ UNCHANGED <<other, aux>>

\* agent.py:207,225-235: the summary query raised.
SummaryRaises ==
  /\ pc = "summary"
  /\ \E e \in ErrorTexts :
       /\ result' = FailedResult(plan, outputs, e)
       /\ failure' = "summary"
       /\ pc' = "done"
  /\ UNCHANGED <<registry, plan, verdict, judgeLog, ctx, outputs, cursor,
                 inputs, calls, returned, summaryCalls>>
  /\ UNCHANGED <<other, aux>>

Next ==
  \/ ParseReturns
  \/ ParseRaises
  \/ ProposeReturns
  \/ ProposeRaises
  \/ Validate
  \/ JudgeAnswers
  \/ ResolveAndCall
  \/ ActionReturns
  \/ ActionRaises
  \/ SummaryReturns
  \/ SummaryRaises

Spec == Init /\ [][Next]_vars

-----------------------------------------------------------------------------
(* Plan.validate called on its own, twice in a row (plan.py:43-102)         *)

\* What an Agent that has executed an earlier plan still holds in
\* _execution_context (agent.py:194; reset only at agent.py:174).
LeftoverContext == Put(EmptyDict, "k1", "a")

\* A caller holds a Plan and an Agent that has run before.
InitValidate ==
  /\ registry \in Registries
  /\ plan \in Plans
  /\ registry = StartupRegistry \/ Len(plan.steps) <= 1
  /\ pc = "pending"
  /\ verdict = Reject(<<>>)
  /\ judgeLog = <<>>
  /\ ctx = LeftoverContext
  /\ outputs = EmptyDict
  /\ cursor = 0
  /\ inputs = EmptyDict
  /\ calls = <<>>
  /\ returned = EmptyDict
  /\ summaryCalls = 0
  /\ failure = "none"
  /\ result = NoResult
  /\ other = NoOther
  /\ registration = NoRegistration
  /\ ExtIdle
  /\ actions = EmptyDict
  /\ gathered = NoneGathered
  /\ plan_dict = NoProposal
  /\ instances = Constructed(plan)
  /\ runs = <<>>

\* Mutant: validate resets the Agent's execution context.
ValidateOnlyClearsContext ==
  /\ pc \in {"pending", "validated"}
  /\ \E lm \in LmArguments, got \in GetLmOutcomes :
       IF lm = NoLM /\ got = "raises"
         THEN /\ pc' = "validate_raised"
              /\ failure' = "get_lm"
              /\ UNCHANGED verdict
         ELSE LET s == StructuralCheck(plan, get_registered_actions(registry))
              IN  /\ failure' = failure
                  /\ IF s.ok
                       THEN /\ pc' = IF pc = "pending" THEN "judging" ELSE "rejudging"
                            /\ UNCHANGED verdict
                       ELSE /\ verdict' = s
                            /\ pc' = IF pc = "pending" THEN "validated"
                                     ELSE "revalidated"
  /\ ctx' = EmptyDict
  /\ UNCHANGED <<registry, plan, judgeLog, outputs, cursor, inputs, calls,
                 returned, summaryCalls, result>>
  /\ UNCHANGED <<other, aux>>

\* plan.py:43-93: one call of plan.validate(lm), the first or the second on
\* the same plan, up to its wait.  It takes a copy of the registry
\* (action.py:30-32), gets a default model when none is passed, and walks
\* the steps; it returns at the first structural failure and otherwise puts
\* the plan to the judge.  It assigns nothing.
ValidateOnly ==
  /\ pc \in {"pending", "validated"}
  /\ \E lm \in LmArguments, got \in GetLmOutcomes :
       IF lm = NoLM /\ got = "raises"
         THEN /\ pc' = "validate_raised"
              /\ failure' = "get_lm"
              /\ UNCHANGED verdict
         ELSE LET s == StructuralCheck(plan, get_registered_actions(registry))
              IN  /\ failure' = failure
                  /\ IF s.ok
                       THEN /\ pc' = IF pc = "pending" THEN "judging" ELSE "rejudging"
                            /\ UNCHANGED verdict
                       ELSE /\ verdict' = s
                            /\ pc' = IF pc = "pending" THEN "validated"
                                     ELSE "revalidated"
  /\ UNCHANGED <<registry, plan, judgeLog, ctx, outputs, cursor, inputs, calls,
                 returned, summaryCalls, result>>
  /\ UNCHANGED <<other, aux>>

\* plan.py:93-102: the judge's query returned or raised, and validate
\* returns the pair it computes from the reply alone.
ValidateOnlyJudgeAnswers ==
  /\ pc \in {"judging", "rejudging"}
  /\ \E outcome \in JudgeOutcomes :
       /\ verdict' = JudgeVerdict(outcome)
       /\ judgeLog' = Append(judgeLog, outcome)
  /\ pc' = IF pc = "judging" THEN "validated" ELSE "revalidated"
  /\ UNCHANGED <<registry, plan, ctx, outputs, cursor, inputs, calls, returned,
                 summaryCalls, failure, result>>
  /\ UNCHANGED <<other, aux>>

NextValidate ==
  \/ ValidateOnly
  \/ ValidateOnlyJudgeAnswers

SpecValidate == InitValidate /\ [][NextValidate]_vars

-----------------------------------------------------------------------------
(* Two _execute_plan calls interleaved on one Agent (agent.py:164-235)      *)
(*                                                                         *)
(* Both calls execute the validated plan `plan`.  Each has its own locals  *)
(* (outputs, inputs, the loop position); self._execution_context is an     *)
(* attribute of the Agent and so is the one `ctx` for both.                *)

\* The plans validate accepts with the startup registry when the judge says yes.
AcceptedPlans == { p \in Plans : StructuralCheck(p, StartupRegistry).ok }

InitConcurrent ==
  /\ registry = StartupRegistry
  /\ plan \in AcceptedPlans
  /\ pc = "ready"
  /\ verdict = Accept
  /\ judgeLog = << [raises |-> FALSE, text |-> <<"Y", "e", "s">>] >>
  /\ ctx = EmptyDict
  /\ outputs = EmptyDict
  /\ cursor = 0
  /\ inputs = EmptyDict
  /\ calls = <<>>
  /\ returned = EmptyDict
  /\ summaryCalls = 0
  /\ failure = "none"
  /\ result = NoResult
  /\ other = [NoOther EXCEPT !.pc = "ready"]
  /\ registration = NoRegistration
  /\ ExtIdle
  /\ actions = EmptyDict
  /\ gathered = NoneGathered
  /\ plan_dict = NoProposal
  /\ instances = Constructed(plan)
  /\ runs = <<>>

\* Mutant: _execute_plan keeps the context of the previous execution.
StartExecutionKeepsContext ==
  /\ pc = "ready"
  /\ outputs' = EmptyDict
  /\ cursor' = 0
  /\ pc' = AfterStep(0)
  /\ summaryCalls' = IF AfterStep(0) = "summary" THEN summaryCalls + 1
                     ELSE summaryCalls
  /\ UNCHANGED <<registry, plan, verdict, judgeLog, ctx, inputs, calls, returned,
                 failure, result, other>>
  /\ UNCHANGED aux

\* agent.py:173-174: the first call enters _execute_plan.
StartExecution ==
  /\ pc = "ready"
  /\ outputs' = EmptyDict
  /\ ctx' = EmptyDict
  /\ cursor' = 0
  /\ pc' = AfterStep(0)
  /\ summaryCalls' = IF AfterStep(0) = "summary" THEN summaryCalls + 1
                     ELSE summaryCalls
  /\ UNCHANGED <<registry, plan, verdict, judgeLog, inputs, calls, returned,
                 failure, result, other>>
  /\ UNCHANGED aux

\* agent.py:173-174: the second call enters _execute_plan and rebinds the
\* Agent's context to a new empty dict.
OtherStartExecution ==
  /\ other.pc = "ready"
  /\ ctx' = EmptyDict
  /\ other' = [other EXCEPT !.pc = AfterStep(0), !.outputs = EmptyDict, !.cursor = 0]
  /\ UNCHANGED <<registry, plan, pc, verdict, judgeLog, outputs, cursor, inputs,
                 calls, returned, summaryCalls, failure, result>>
  /\ UNCHANGED aux

\* agent.py:178-190 in the second call, one read of the context at a time.
OtherResolveAndCall ==
  /\ other.pc \in {"loop", "map"}
  /\ other.cursor < Len(plan.steps)
  /\ LET step    == plan.steps[other.cursor + 1]
         mapping == step.input_mapping
         sofar   == IF other.pc = "loop" THEN NoneGathered ELSE other.gathered
         j       == sofar.read + 1
         m       == IF j > Len(mapping)
                      THEN [raised |-> FALSE, key |-> "", inputs |-> sofar.inputs]
                      ELSE MapInput(mapping, ctx, j, sofar.inputs)
     IN  other' =
           IF m.raised
             THEN [other EXCEPT !.pc = "done", !.failure = "key_error",
                     !.gathered = sofar,
                     !.result = FailedResult(plan, other.outputs, KeyErrorText(m.key))]
           ELSE IF j < Len(mapping)
             THEN [other EXCEPT !.pc = "map",
                     !.gathered = [read |-> j, inputs |-> m.inputs]]
             ELSE [other EXCEPT !.pc = "call",
                     !.gathered = [read |-> Len(mapping), inputs |-> m.inputs],
                     !.inputs = AddLanguageModel(m.inputs)]
  /\ UNCHANGED <<registry, plan, pc, verdict, judgeLog, ctx, outputs, cursor,
                 inputs, calls, returned, summaryCalls, failure, result>>
  /\ UNCHANGED aux

\* agent.py:190-195 in the second call.
OtherActionReturns ==
  /\ other.pc = "call"
  /\ \E v \in Values :
       LET n   == other.cursor + 1
           key == plan.steps[n].output_key
       IN  /\ ctx' = StoreContext(ctx, key, v)
           /\ other' = [other EXCEPT !.returned = Put(other.returned, n, v),
                                     !.outputs = StoreOutput(other.outputs, key, n, v),
                                     !.cursor = n,
                                     !.pc = AfterStep(n)]
  /\ UNCHANGED <<registry, plan, pc, verdict, judgeLog, outputs, cursor, inputs,
                 calls, returned, summaryCalls, failure, result>>
  /\ UNCHANGED aux

\* agent.py:190,225-235 in the second call.
OtherActionRaises ==
  /\ other.pc = "call"
  /\ \E e \in ActionErrorTexts :
       other' = [other EXCEPT !.pc = "done", !.failure = "action",
                   !.result = FailedResult(plan, other.outputs, e)]
  /\ UNCHANGED <<registry, plan, pc, verdict, judgeLog, ctx, outputs, cursor,
                 inputs, calls, returned, summaryCalls, failure, result>>
  /\ UNCHANGED aux

\* agent.py:207-223 in the second call.
OtherSummaryReturns ==
  /\ other.pc = "summary"
  /\ \E s \in Summaries :
       other' = [other EXCEPT !.pc = "done",
                   !.result = CompletedResult(plan, other.outputs, s)]
  /\ UNCHANGED <<registry, plan, pc, verdict, judgeLog, ctx, outputs, cursor,
                 inputs, calls, returned, summaryCalls, failure, result>>
  /\ UNCHANGED aux

\* agent.py:207,225-235 in the second call.
OtherSummaryRaises ==
  /\ other.pc = "summary"
  /\ \E e \in ErrorTexts :
       other' = [other EXCEPT !.pc = "done", !.failure = "summary",
                   !.result = FailedResult(plan, other.outputs, e)]
  /\ UNCHANGED <<registry, plan, pc, verdict, judgeLog, ctx, outputs, cursor,
                 inputs, calls, returned, summaryCalls, failure, result>>
  /\ UNCHANGED aux

NextConcurrent ==
  \/ StartExecution
  \/ ResolveAndCall
  \/ ActionReturns
  \/ ActionRaises
  \/ SummaryReturns
  \/ SummaryRaises
  \/ OtherStartExecution
  \/ OtherResolveAndCall
  \/ OtherActionReturns
  \/ OtherActionRaises
  \/ OtherSummaryReturns
  \/ OtherSummaryRaises

SpecConcurrent == InitConcurrent /\ [][NextConcurrent]_vars

-----------------------------------------------------------------------------
(* _execute_plan on an Agent that has executed before (agent.py:164-235)    *)
(*                                                                         *)
(* The caller hands _execute_plan a plan of registered actions, validated  *)
(* or not; the Agent still holds the context of its previous execution.    *)

\* What the previous execution left in self._execution_context (agent.py:194).
EarlierContext == [k \in Keys |-> "old"]

\* Plans whose steps all carry an action of the startup registry.
RegisteredPlans ==
  { p \in Plans : \A n \in 1..Len(p.steps) : p.steps[n].action \in DOMAIN StartupRegistry }

InitSequential ==
  /\ registry = StartupRegistry
  /\ plan \in RegisteredPlans
  /\ pc = "ready"
  /\ verdict = Reject(<<>>)
  /\ judgeLog = <<>>
  /\ ctx = EarlierContext
  /\ outputs = EmptyDict
  /\ cursor = 0
  /\ inputs = EmptyDict
  /\ calls = <<>>
  /\ returned = EmptyDict
  /\ summaryCalls = 0
  /\ failure = "none"
  /\ result = NoResult
  /\ other = NoOther
  /\ registration = NoRegistration
  /\ ExtIdle
  /\ actions = EmptyDict
  /\ gathered = NoneGathered
  /\ plan_dict = NoProposal
  /\ instances = Constructed(plan)
  /\ runs = <<>>

NextSequential ==
  \/ StartExecution
  \/ ResolveAndCall
  \/ ActionReturns
  \/ ActionRaises
  \/ SummaryReturns
  \/ SummaryRaises

SpecSequential == InitSequential /\ [][NextSequential]_vars

\* _execute_plan is one thread that keeps going, and every call it waits
\* for (an action, the summarizer) returns or raises: whenever a step is
\* possible, one is eventually taken.  Plans of up to MaxFairSteps steps.
InitFair == InitSequential /\ Len(plan.steps) <= MaxFairSteps

FairSpec == InitFair /\ [][NextSequential]_vars /\ WF_vars(NextSequential)

-----------------------------------------------------------------------------
(* Action.execute of a class that implements run (action.py:42-112)        *)
(*                                                                         *)
(* Teleport does not override execute: the executor's call lands in the    *)
(* base method, which filters the inputs by run's signature, binds inputs  *)
(* whose name matches a field to a clone, and calls run.                   *)

\* The characters of the input and field names.
Chars(name) ==
  CASE name = "q"           -> <<"q">>
    [] name = "lm"          -> <<"l", "m">>
    [] name = "query"       -> <<"q", "u", "e", "r", "y">>
    [] name = "num_results" -> <<"n", "u", "m", "_", "r", "e", "s", "u", "l", "t", "s">>
    [] name = "sym_parent"  -> <<"s", "y", "m", "_", "p", "a", "r", "e", "n", "t">>

\* str.endswith
EndsWith(s, suffix) ==
  /\ Len(s) >= Len(suffix)
  /\ \A i \in 1..Len(suffix) : s[Len(s) - Len(suffix) + i] = suffix[i]

\* action.py:93
Matches(input_key, prop_name) ==
  \/ EndsWith(Chars(input_key), Chars(prop_name))
  \/ StartsWith(Chars(input_key), Chars(prop_name))

\* action.py:58,74: the parameters of Teleport.run(self, lm).
accepted_params == {"lm"}

\* action.py:75
filtered_kwargs(kwargs) == [k \in (DOMAIN kwargs) \cap accepted_params |-> kwargs[k]]

\* action.py:80-96.  The inner loop leaves the value of the last matching
\* input; among the inputs of these plans at most one matches a property.
binding_values(cls, kwargs, lib) ==
  LET bound == { p \in property_names(cls, lib) :
                   /\ p \notin DOMAIN filtered_kwargs(kwargs)
                   /\ \E k \in DOMAIN kwargs : Matches(k, p) }
  IN  [p \in bound |-> kwargs[CHOOSE k \in DOMAIN kwargs : Matches(k, p)]]

\* action.py:102: the field values of pg.clone(self).rebind(**binding).
Rebound(fields, binding) ==
  [f \in DOMAIN fields |-> IF f \in DOMAIN binding THEN binding[f] ELSE fields[f]]

\* Mutant: the step's own instance is rebound, self.rebind(**binding).
AfterRebindInPlace(insts, n, binding) ==
  [insts EXCEPT ![n] = Rebound(insts[n], binding)]

\* action.py:102: rebind acts on the clone; the instances the steps own are
\* what they were.
AfterRebind(insts, n, binding) == insts

\* The binding Action.execute computes for the step in progress.
Binding(lib) == binding_values(plan.steps[cursor + 1].action, inputs, lib)

\* One more call of run, on the clone or on the step's own instance.
RunCalled(on, fields) ==
  Append(runs, [step |-> cursor + 1, on |-> on, fields |-> fields,
                kwargs |-> filtered_kwargs(inputs)])

\* agent.py:190-195: execute returned v to the loop.
ExecuteReturned(v) ==
  LET n   == cursor + 1
      key == plan.steps[n].output_key
  IN  /\ returned' = Put(returned, n, v)
      /\ ctx' = StoreContext(ctx, key, v)
      /\ outputs' = StoreOutput(outputs, key, n, v)
      /\ cursor' = n
      /\ pc' = AfterStep(n)
      /\ summaryCalls' = IF AfterStep(n) = "summary" THEN summaryCalls + 1
                         ELSE summaryCalls
      /\ UNCHANGED <<failure, result>>

\* agent.py:190,225-235: execute raised e to the loop.
ExecuteRaised(e) ==
  /\ result' = FailedResult(plan, outputs, e)
  /\ failure' = "action"
  /\ pc' = "done"
  /\ UNCHANGED <<ctx, outputs, cursor, returned, summaryCalls>>

\* action.py:99-104: run on the rebound clone returns.
BoundRunReturns ==
  /\ pc = "call"
  /\ \E lib \in Libraries :
       /\ DOMAIN Binding(lib) # {}
       /\ runs' = RunCalled("clone", Rebound(instances[cursor + 1], Binding(lib)))
       /\ instances' = AfterRebind(instances, cursor + 1, Binding(lib))
  /\ \E v \in Values : ExecuteReturned(v)
  /\ UNCHANGED <<registry, plan, verdict, judgeLog, inputs, calls, other, registration, ext, loc>>

\* action.py:99-107: run on the rebound clone raises; the except clause takes
\* the exception and execute goes on to line 110.
BoundRunRaises ==
  /\ pc = "call"
  /\ \E lib \in Libraries :
       /\ DOMAIN Binding(lib) # {}
       /\ runs' = RunCalled("clone", Rebound(instances[cursor + 1], Binding(lib)))
       /\ instances' = AfterRebind(instances, cursor + 1, Binding(lib))
  /\ pc' = "fallback"
  /\ UNCHANGED <<registry, plan, verdict, judgeLog, ctx, outputs, cursor, inputs,
                 calls, returned, summaryCalls, failure, result, other, registration, ext, loc>>

\* action.py:110: self.run returns, either with nothing to bind or after the
\* except clause.
SelfRunReturns ==
  /\ \/ pc = "fallback"
     \/ pc = "call" /\ \E lib \in Libraries : DOMAIN Binding(lib) = {}
  /\ runs' = RunCalled("self", instances[cursor + 1])
  /\ \E v \in Values : ExecuteReturned(v)
  /\ UNCHANGED <<registry, plan, verdict, judgeLog, inputs, calls, other,
                 registration, instances, ext, loc>>

\* action.py:110: self.run raises, and so does execute.
SelfRunRaises ==
  /\ \/ pc = "fallback"
     \/ pc = "call" /\ \E lib \in Libraries : DOMAIN Binding(lib) = {}
  /\ runs' = RunCalled("self", instances[cursor + 1])
  /\ \E e \in ActionErrorTexts : ExecuteRaised(e)
  /\ UNCHANGED <<registry, plan, verdict, judgeLog, inputs, calls, other,
                 registration, instances, ext, loc>>

\* Plans whose steps all carry the class that implements run.
RunStylePlans ==
  { p \in Plans : /\ Len(p.steps) <= MaxRunSteps
                  /\ \A n \in 1..Len(p.steps) : p.steps[n].action = "Teleport" }

InitRunStyle ==
  /\ registry = FullRegistry
  /\ plan \in RunStylePlans
  /\ pc = "ready"
  /\ verdict = Reject(<<>>)
  /\ judgeLog = <<>>
  /\ ctx = EmptyDict
  /\ outputs = EmptyDict
  /\ cursor = 0
  /\ inputs = EmptyDict
  /\ calls = <<>>
  /\ returned = EmptyDict
  /\ summaryCalls = 0
  /\ failure = "none"
  /\ result = NoResult
  /\ other = NoOther
  /\ registration = NoRegistration
  /\ ExtIdle
  /\ actions = EmptyDict
  /\ gathered = NoneGathered
  /\ plan_dict = NoProposal
  /\ instances = Constructed(plan)
  /\ runs = <<>>

NextRunStyle ==
  \/ StartExecution
  \/ ResolveAndCall
  \/ BoundRunReturns
  \/ BoundRunRaises
  \/ SelfRunReturns
  \/ SelfRunRaises
  \/ SummaryReturns
  \/ SummaryRaises

SpecRunStyle == InitRunStyle /\ [][NextRunStyle]_vars

-----------------------------------------------------------------------------
(* The action registry while classes are being registered (action.py:11-28) *)

\* The `name` argument of @register_action(name): absent (None), empty, or
\* an explicit name, which may be a class's own name or an alias.
RegistrationNames ==
  { [given |-> FALSE, text |-> ""] } \cup
  [given : {TRUE}, text : {""} \cup ActionNames \cup {"Search"}]

\* action.py:23, name or cls.__name__
EffectiveName(name, cls) ==
  IF name.given /\ name.text # "" THEN name.text ELSE cls

\* action.py:25, str(ValueError(f"Action {action_name} already registered"))
AlreadyRegisteredError(actionName) == <<"Action ", actionName, " already registered">>

\* Mutant: a taken name is handed to the new class.
RegisterOverwriting(reg, name, cls) ==
  [raised   |-> FALSE,
   error    |-> <<>>,
   registry |-> Put(reg, EffectiveName(name, cls), cls)]

\* action.py:22-27: the decorator applied to class cls; what it raises and
\* the registry it leaves.
Register(reg, name, cls) ==
  LET actionName == EffectiveName(name, cls)
  IN  IF actionName \in DOMAIN reg
        THEN [raised |-> TRUE, error |-> AlreadyRegisteredError(actionName),
              registry |-> reg]
        ELSE [raised |-> FALSE, error |-> <<>>,
              registry |-> Put(reg, actionName, cls)]

\* action.py:11: the module has just been imported, nothing is registered.
InitRegistry ==
  /\ registry = EmptyRegistry
  /\ plan = NoPlan
  /\ pc = "registering"
  /\ verdict = Reject(<<>>)
  /\ judgeLog = <<>>
  /\ ctx = EmptyDict
  /\ outputs = EmptyDict
  /\ cursor = 0
  /\ inputs = EmptyDict
  /\ calls = <<>>
  /\ returned = EmptyDict
  /\ summaryCalls = 0
  /\ failure = "none"
  /\ result = NoResult
  /\ other = NoOther
  /\ registration = NoRegistration
  /\ ExtIdle
  /\ actions = EmptyDict
  /\ gathered = NoneGathered
  /\ plan_dict = NoProposal
  /\ instances = Constructed(plan)
  /\ runs = <<>>

\* action.py:13-28: one @register_action(name) applied to a class.
RegisterAction ==
  /\ pc = "registering"
  /\ \E name \in RegistrationNames, cls \in ActionNames :
       LET r == Register(registry, name, cls)
       IN  /\ registry' = r.registry
           /\ registration' = [name |-> EffectiveName(name, cls), cls |-> cls,
                               raised |-> r.raised, error |-> r.error,
                               before |-> registry]
  /\ UNCHANGED <<plan, pc, verdict, judgeLog, ctx, outputs, cursor, inputs,
                 calls, returned, summaryCalls, failure, result, other,
                 instances, runs, ext, loc>>

NextRegistry == RegisterAction

SpecRegistry == InitRegistry /\ [][NextRegistry]_vars

-----------------------------------------------------------------------------
(* The registry while requests are served (action.py:11-32)                *)
(*                                                                         *)
(* Next to a request being processed, a module imported late applies       *)
(* @register_action once more, and a caller writes to the dict it got from *)
(* get_registered_actions.                                                 *)

\* del d[k]
Remove(d, k) == [x \in (DOMAIN d) \ {k} |-> d[x]]

\* What one statement of a caller makes of the dict d it holds: del d[n],
\* d[n] = cls, or d.clear().
DictWrites(d) ==
  { Remove(d, n) : n \in DOMAIN d }
    \cup { Put(d, n, cls) : n \in ActionNames \cup {"Search"}, cls \in ActionNames }
    \cup { EmptyRegistry }

\* Mutant: get_registered_actions returns _ACTION_REGISTRY itself, and the
\* caller's write lands in it.
RegistryAfterWriteShared(reg, written) == written

\* action.py:32: the dict returned is a copy, so _ACTION_REGISTRY is what it
\* was after the caller wrote to the copy.
RegistryAfterWrite(reg, written) == reg

\* action.py:30-32 and the caller's write to the returned dict.
WriteToReturnedDict ==
  /\ ~handed.given
  /\ \E written \in DictWrites(get_registered_actions(registry)) :
       /\ handed' = [given |-> TRUE, dict |-> written]
       /\ registry' = RegistryAfterWrite(registry, written)
  /\ UNCHANGED <<plan, pc, verdict, judgeLog, ctx, outputs, cursor, inputs,
                 calls, returned, summaryCalls, failure, result, other,
                 registration, instances, runs, dyn, stat, app, loc>>

\* action.py:13-28: @register_action(name) applied to a class after start-up.
LateRegisterAction ==
  /\ pc # "registering"
  /\ registration = NoRegistration
  /\ \E name \in RegistrationNames, cls \in ActionNames :
       LET r == Register(registry, name, cls)
       IN  /\ registry' = r.registry
           /\ registration' = [name |-> EffectiveName(name, cls), cls |-> cls,
                               raised |-> r.raised, error |-> r.error,
                               before |-> registry]
  /\ UNCHANGED <<plan, pc, verdict, judgeLog, ctx, outputs, cursor, inputs,
                 calls, returned, summaryCalls, failure, result, other,
                 instances, runs, ext, loc>>

\* A caller holds a plan of up to MaxStableSteps steps that it built itself
\* and has it validated and executed.
InitStable == Init /\ pc = "pending" /\ Len(plan.steps) <= MaxStableSteps

NextStable ==
  \/ Validate
  \/ JudgeAnswers
  \/ ResolveAndCall
  \/ ActionReturns
  \/ ActionRaises
  \/ SummaryReturns
  \/ SummaryRaises
  \/ LateRegisterAction
  \/ WriteToReturnedDict

SpecStable == InitStable /\ [][NextStable]_vars

-----------------------------------------------------------------------------
(* The demo solvers (naive_demo.py, examples/naive_demo.py)                *)

\* The Agent and the registry play no part in the demo solvers.
AgentIdle ==
  /\ registry = StartupRegistry
  /\ plan = NoPlan
  /\ pc = "idle"
  /\ verdict = Reject(<<>>)
  /\ judgeLog = <<>>
  /\ ctx = EmptyDict
  /\ outputs = EmptyDict
  /\ cursor = 0
  /\ inputs = EmptyDict
  /\ calls = <<>>
  /\ returned = EmptyDict
  /\ summaryCalls = 0
  /\ failure = "none"
  /\ result = NoResult
  /\ other = NoOther
  /\ registration = NoRegistration
  /\ instances = Constructed(plan)
  /\ runs = <<>>
  /\ handed = NoDict
  /\ actions = EmptyDict
  /\ gathered = NoneGathered
  /\ plan_dict = NoProposal

agent == <<registry, plan, pc, verdict, judgeLog, ctx, outputs, cursor, inputs,
           calls, returned, summaryCalls, failure, result, other,
           registration, instances, runs, handed, actions, gathered, plan_dict>>

\* The two copies of the solver: src/naive_demo.py and src/examples/naive_demo.py.
Variants == {"src", "examples"}

\* Queries of a search action, word by word.
Queries == { <<"Nvidia">>, <<"AMD", "stock">>, <<"weather">> }

\* The action instances a proposed step may carry: the classes of
\* AVAILABLE_ACTIONS (naive_demo.py:41-46) or of the union type of
\* examples/naive_demo.py:27.
DemoActions(variant) ==
  [cls : {"GoogleSearch"}, query : Queries, final_answer : {""}]
    \cup [cls : {"FinalAnswer"}, query : {<<>>}, final_answer : {"42"}]
    \cup (IF variant = "src"
            THEN [cls : {"AskGPT"}, query : {<<"weather">>}, final_answer : {""}]
            ELSE {})

\* isinstance(step.action, FinalAnswer)
IsFinalAnswer(a) == a.cls = "FinalAnswer"

\* The parameters of cls.__call__ besides self, none of them with a default:
\* google_search.py:11 and ask_gpt.py:15 against examples/naive_demo.py:11.
CallParameters(variant, cls) ==
  IF variant = "src" THEN {"question", "past_steps"} ELSE {}

\* Python's binding of a call's keyword arguments to __call__'s parameters:
\* a missing or an unexpected argument is a TypeError.
CallBinds(variant, cls, passed) == passed = CallParameters(variant, cls)

\* word in self.query
Contains(query, word) == \E k \in DOMAIN query : query[k] = word

\* google_search.py:12-18, examples/naive_demo.py:11-17
GoogleSearchResult(query) ==
  IF Contains(query, "Nvidia") THEN 1000
  ELSE IF Contains(query, "AMD") THEN 100
  ELSE 0

\* What the body of a.__call__ may return.
BodyReturns(a) ==
  IF a.cls = "GoogleSearch" THEN { GoogleSearchResult(a.query) }
  ELSE { "text" }

\* Whether the body of a.__call__ may raise: AskGPT queries a language model
\* (ask_gpt.py:19-32), GoogleSearch only inspects its query; the body of
\* FinalAnswer is not among these sources and is taken to return or raise.
BodyMayRaise(a) == a.cls # "GoogleSearch"

\* naive_demo.py:72: the prompt is an f-string that reads the module global
\* `question`, which only the __main__ block defines (naive_demo.py:172);
\* the prompt of examples/naive_demo.py:41 is a plain string.
PromptRaises(variant, question_defined) == variant = "src" /\ ~question_defined

\* naive_demo.py:85, examples/naive_demo.py:49: next_step.action()
DynamicCallArguments == {}

\* naive_demo.py:157, app.py:102: step.action(question=..., past_steps=...)
StaticCallArguments == {"question", "past_steps"}

-----------------------------------------------------------------------------
(* dynamic_solve (naive_demo.py:66-87, examples/naive_demo.py:37-51)       *)

\* The step dynamic_solve is looking at.
NextStep == dyn.proposals[Len(dyn.proposals)]

\* dynamic_solve was just called.
InitDynamic ==
  /\ AgentIdle
  /\ stat = NoStat
  /\ app = NoApp
  /\ \E variant \in Variants, defined \in BOOLEAN, max_steps \in 0..MaxDynamicSteps :
       dyn = [pc |-> "loop", variant |-> variant, question_defined |-> defined,
              max_steps |-> max_steps, i |-> 0, proposals |-> <<>>,
              past_steps |-> <<>>, invoked |-> <<>>, answer |-> None,
              cause |-> "none"]

\* naive_demo.py:70-72: building the prompt raises NameError.
DynPromptRaises ==
  /\ dyn.pc = "loop"
  /\ dyn.i < dyn.max_steps
  /\ PromptRaises(dyn.variant, dyn.question_defined)
  /\ dyn' = [dyn EXCEPT !.i = @ + 1, !.pc = "raised", !.cause = "NameError"]
  /\ UNCHANGED <<agent, stat, app>>

\* naive_demo.py:70-81: lf.query returns the next step.
DynQueryReturns ==
  /\ dyn.pc = "loop"
  /\ dyn.i < dyn.max_steps
  /\ ~PromptRaises(dyn.variant, dyn.question_defined)
  /\ \E a \in DemoActions(dyn.variant) :
       dyn' = [dyn EXCEPT !.i = @ + 1, !.pc = "proposed",
                          !.proposals = Append(@, [thought |-> "t", action |-> a])]
  /\ UNCHANGED <<agent, stat, app>>

\* naive_demo.py:70-81: lf.query raises.
DynQueryRaises ==
  /\ dyn.pc = "loop"
  /\ dyn.i < dyn.max_steps
  /\ ~PromptRaises(dyn.variant, dyn.question_defined)
  /\ dyn' = [dyn EXCEPT !.i = @ + 1, !.pc = "raised", !.cause = "query"]
  /\ UNCHANGED <<agent, stat, app>>

\* naive_demo.py:83-84
DynFinalAnswer ==
  /\ dyn.pc = "proposed"
  /\ IsFinalAnswer(NextStep.action)
  /\ dyn' = [dyn EXCEPT !.pc = "returned",
                        !.answer = Str(<<NextStep.action.final_answer>>)]
  /\ UNCHANGED <<agent, stat, app>>

\* naive_demo.py:85-86: the call returns and the result is recorded.
DynActionReturns ==
  /\ dyn.pc = "proposed"
  /\ ~IsFinalAnswer(NextStep.action)
  /\ CallBinds(dyn.variant, NextStep.action.cls, DynamicCallArguments)
  /\ \E r \in BodyReturns(NextStep.action) :
       dyn' = [dyn EXCEPT !.pc = "loop",
                          !.invoked = Append(@, NextStep),
                          !.past_steps = Append(@, [step |-> NextStep, result |-> r])]
  /\ UNCHANGED <<agent, stat, app>>

\* naive_demo.py:85: the call raises, a TypeError when the arguments do not
\* fit __call__, else whatever the body raises; dynamic_solve has no handler.
DynActionRaises ==
  /\ dyn.pc = "proposed"
  /\ ~IsFinalAnswer(NextStep.action)
  /\ IF CallBinds(dyn.variant, NextStep.action.cls, DynamicCallArguments)
       THEN /\ BodyMayRaise(NextStep.action)
            /\ dyn' = [dyn EXCEPT !.pc = "raised", !.cause = "action",
                                  !.invoked = Append(@, NextStep)]
       ELSE dyn' = [dyn EXCEPT !.pc = "raised", !.cause = "TypeError",
                               !.invoked = Append(@, NextStep)]
  /\ UNCHANGED <<agent, stat, app>>

\* naive_demo.py:70,87: range(max_steps) is used up.
DynExhausted ==
  /\ dyn.pc = "loop"
  /\ dyn.i >= dyn.max_steps
  /\ dyn' = [dyn EXCEPT !.pc = "returned", !.answer = None]
  /\ UNCHANGED <<agent, stat, app>>

NextDynamic ==
  \/ DynPromptRaises
  \/ DynQueryReturns
  \/ DynQueryRaises
  \/ DynFinalAnswer
  \/ DynActionReturns
  \/ DynActionRaises
  \/ DynExhausted

SpecDynamic == InitDynamic /\ [][NextDynamic]_vars

-----------------------------------------------------------------------------
(* static_solve (naive_demo.py:89-167)                                     *)

\* What the user may type at the prompt, character by character.
UserInputs ==
  { <<"y">>, <<" ", "Y", "e", "s", " ">>, <<"N">>, <<"n", "o">>,
    <<"y", "e", "s", " ", "b", "u", "t">>, <<"m", "o", "r", "e">>, <<>> }

\* The steps of the plans lf.query may propose.
DemoSteps ==
  { [thought |-> "t", action |-> a] :
      a \in { x \in DemoActions("src") : x.query \in {<<>>, <<"weather">>} } }

\* The plans lf.query may propose.
DemoPlans == [steps : SeqsUpTo(DemoSteps, MaxStaticSteps), thought : {"t"}]

\* current_plan = None
NoDemoPlan == [steps |-> <<>>, thought |-> "None"]

\* str(i) of a step index
IndexStr(i) == IF i = 0 THEN "0" ELSE NumStr[i]

\* naive_demo.py:162
ExecutionFailedAt(i) == <<"Execution failed at step ", IndexStr(i), ".">>

\* Mutant: every answer but a no approves the plan.
ApprovesUnlessNo(user_input) == Lower(user_input) \notin { <<"n">>, <<"n", "o">> }

\* naive_demo.py:131
Approves(user_input) == Lower(user_input) \in { <<"y">>, <<"y", "e", "s">> }

\* naive_demo.py:135
Rejects(user_input) == Lower(user_input) \in { <<"n">>, <<"n", "o">> }

\* static_solve was just called, from a script or from an importing module.
InitStatic ==
  /\ AgentIdle
  /\ dyn = NoDyn
  /\ app = NoApp
  /\ \E defined \in BOOLEAN :
       stat = [pc |-> "generate", question_defined |-> defined,
               current_plan |-> NoDemoPlan, user_feedback |-> <<>>,
               plan |-> NoDemoPlan, revising |-> FALSE, typed |-> <<>>,
               i |-> 0, invoked |-> <<>>, past_steps |-> <<>>,
               ret |-> <<>>, cause |-> "none"]

\* naive_demo.py:95-105: building the prompt raises NameError.
StatPromptRaises ==
  /\ stat.pc = "generate"
  /\ PromptRaises("src", stat.question_defined)
  /\ stat' = [stat EXCEPT !.pc = "raised", !.cause = "NameError"]
  /\ UNCHANGED <<agent, dyn, app>>

\* naive_demo.py:95-125: lf.query returns a plan, which is printed.  The
\* refinement loop is followed for MaxRounds rounds of feedback.
StatQueryReturns ==
  /\ stat.pc = "generate"
  /\ ~PromptRaises("src", stat.question_defined)
  /\ Len(stat.typed) <= MaxRounds
  /\ \E p \in DemoPlans :
       stat' = [stat EXCEPT !.pc = "ask", !.plan = p,
                            !.revising = (stat.current_plan # NoDemoPlan)]
  /\ UNCHANGED <<agent, dyn, app>>

\* naive_demo.py:107-113: lf.query raises.
StatQueryRaises ==
  /\ stat.pc = "generate"
  /\ ~PromptRaises("src", stat.question_defined)
  /\ Len(stat.typed) <= MaxRounds
  /\ stat' = [stat EXCEPT !.pc = "raised", !.cause = "query"]
  /\ UNCHANGED <<agent, dyn, app>>

\* naive_demo.py:129-149: the user's answer is read and acted upon.
StatUserAnswers ==
  /\ stat.pc = "ask"
  /\ \E raw \in UserInputs :
       LET user_input == Strip(raw)
       IN  IF Approves(user_input)
             THEN stat' = [stat EXCEPT !.typed = Append(@, raw),
                                       !.current_plan = stat.plan,
                                       !.pc = "execute", !.i = 0]
           ELSE IF Rejects(user_input)
             THEN stat' = [stat EXCEPT !.typed = Append(@, raw),
                                       !.pc = "returned",
                                       !.ret = <<"Plan rejected.">>]
           ELSE stat' = [stat EXCEPT !.typed = Append(@, raw),
                                     !.user_feedback = user_input,
                                     !.current_plan = stat.plan,
                                     !.pc = "generate"]
  /\ UNCHANGED <<agent, dyn, app>>

\* naive_demo.py:154-159: the step's action returns.
StatStepReturns ==
  /\ stat.pc = "execute"
  /\ stat.i < Len(stat.current_plan.steps)
  /\ LET step == stat.current_plan.steps[stat.i + 1]
     IN  /\ CallBinds("src", step.action.cls, StaticCallArguments)
         /\ \E r \in BodyReturns(step.action) :
              stat' = [stat EXCEPT !.invoked = Append(@, step),
                                   !.past_steps = Append(@, [step |-> step, result |-> r]),
                                   !.i = @ + 1]
  /\ UNCHANGED <<agent, dyn, app>>

\* naive_demo.py:156-162: the step's action raises.
StatStepRaises ==
  /\ stat.pc = "execute"
  /\ stat.i < Len(stat.current_plan.steps)
  /\ LET step == stat.current_plan.steps[stat.i + 1]
     IN  /\ \/ ~CallBinds("src", step.action.cls, StaticCallArguments)
            \/ BodyMayRaise(step.action)
         /\ stat' = [stat EXCEPT !.invoked = Append(@, step),
                                 !.pc = "returned", !.cause = "action",
                                 !.ret = ExecutionFailedAt(stat.i)]
  /\ UNCHANGED <<agent, dyn, app>>

\* naive_demo.py:164-167: the loop is over; steps[-1] of an empty plan is an
\* IndexError.
StatFinish ==
  /\ stat.pc = "execute"
  /\ stat.i = Len(stat.current_plan.steps)
  /\ stat' =
       IF stat.current_plan.steps = <<>>
         THEN [stat EXCEPT !.pc = "raised", !.cause = "IndexError"]
       ELSE IF IsFinalAnswer(stat.current_plan.steps[Len(stat.current_plan.steps)].action)
         THEN [stat EXCEPT !.pc = "returned",
                           !.ret = <<stat.past_steps[Len(stat.past_steps)].result>>]
       ELSE [stat EXCEPT !.pc = "returned",
                         !.ret = <<"Plan completed without providing a final answer.">>]
  /\ UNCHANGED <<agent, dyn, app>>

NextStatic ==
  \/ StatPromptRaises
  \/ StatQueryReturns
  \/ StatQueryRaises
  \/ StatUserAnswers
  \/ StatStepReturns
  \/ StatStepRaises
  \/ StatFinish

SpecStatic == InitStatic /\ [][NextStatic]_vars

-----------------------------------------------------------------------------
(* The Streamlit app (app.py)                                              *)
(*                                                                         *)
(* st.session_state lives across script runs.  A run of main() goes from   *)
(* the top to its st.rerun() or its end and is started by the user's click *)
(* or by the previous run's st.rerun(); an action below is one run, or the *)
(* part of a run up to or after a wait for generate_plan.  A run stops     *)
(* early only inside a Streamlit call (st.info, the end of st.spinner):    *)
(* a click made while a run waits is served by a run of its own once that  *)
(* run has stopped.                                                        *)

\* naive_demo.py:169-172: `question` is bound only when naive_demo is the
\* script; app.py imports it (app.py:16).
QuestionDefinedOnImport == FALSE

\* The text typed into the feedback box (app.py:265).
FeedbackTexts == { <<>>, <<"m", "o", "r", "e">> }

\* The question typed into the input box (app.py:199).
QueryText == "q"

\* app.py:181-192: the state of a new session.  Next to the six keys of
\* st.session_state: whether OPENAI_API_KEY is set, the last click served
\* and what its run showed, whether a run waits for the revised plan
\* (regenerating) or stands between app.py:236 and :242 (displaying), the
\* click made during such a wait and not served yet with the plan that was
\* on the page when it was made, and the plan on the page when Approve was
\* clicked.
NewSession(key) ==
  [workflow_stage |-> "input", current_query |-> "", current_plan |-> NoDemoPlan,
   execution_results |-> <<>>, final_answer |-> <<>>, user_feedback |-> <<>>,
   api_key |-> key, event |-> "load", approved |-> FALSE, shown |-> "none",
   regenerating |-> FALSE, displaying |-> FALSE, click |-> "none",
   clicked_on |-> NoDemoPlan, approved_plan |-> NoDemoPlan]

\* The only result of calling a, when it returns.
ResultOf(a) == CHOOSE r \in BodyReturns(a) : TRUE

\* hasattr(result, "strip"): a str has it, the int of GoogleSearch has not.
HasStrip(a) == a.cls # "GoogleSearch"

\* Whether step n of plan p may be the first to raise (n = 0: none raises).
MayFailAt(p, n) ==
  /\ \A k \in 1..(IF n = 0 THEN Len(p.steps) ELSE n - 1) :
       CallBinds("src", p.steps[k].action.cls, StaticCallArguments)
  /\ n # 0 => \/ ~CallBinds("src", p.steps[n].action.cls, StaticCallArguments)
              \/ BodyMayRaise(p.steps[n].action)

\* app.py:98-103: past_steps after the first n steps returned.
PastSteps(p, n) ==
  [k \in 1..n |-> [step |-> p.steps[k], result |-> ResultOf(p.steps[k].action)]]

\* app.py:96-111: what execute_plan returns when step n is the first to
\* raise, with str(e) = e (n = 0: no step raises).
execute_plan(p, n, e) ==
  IF n # 0
    THEN [answer |-> <<"Error executing step ", IndexStr(n - 1), ": ", e>>,
          results |-> PastSteps(p, n - 1)]
  ELSE IF p.steps # <<>> /\ HasStrip(p.steps[Len(p.steps)].action)
    THEN [answer |-> <<ResultOf(p.steps[Len(p.steps)].action)>>,
          results |-> PastSteps(p, Len(p.steps))]
  ELSE [answer |-> <<"Execution completed but no final answer was found.">>,
        results |-> PastSteps(p, Len(p.steps))]

\* A browser opens the app, with or without OPENAI_API_KEY in the environment.
InitApp ==
  /\ AgentIdle
  /\ dyn = NoDyn
  /\ stat = NoStat
  /\ \E key \in BOOLEAN : app = NewSession(key)

\* app.py:198-216: "Generate Plan" is clicked.
AppGeneratePlan ==
  /\ app.workflow_stage = "input"
  /\ app' = IF app.api_key
              THEN [app EXCEPT !.current_query = QueryText,
                               !.workflow_stage = "planning",
                               !.event = "generate", !.shown = "none"]
              ELSE [app EXCEPT !.event = "generate", !.shown = "error"]
  /\ UNCHANGED <<agent, dyn, stat>>

\* app.py:198-224: "Run Dynamic Planning" is clicked.
AppRunDynamic ==
  /\ app.workflow_stage = "input"
  /\ app' = IF app.api_key
              THEN [app EXCEPT !.current_query = QueryText,
                               !.workflow_stage = "dynamic",
                               !.event = "dynamic", !.shown = "none"]
              ELSE [app EXCEPT !.event = "dynamic", !.shown = "error"]
  /\ UNCHANGED <<agent, dyn, stat>>

\* app.py:231-236: generate_plan returns and the plan is stored; the run
\* goes on to display it.
AppPlanGenerated ==
  /\ app.workflow_stage = "planning"
  /\ ~app.displaying
  /\ \E p \in DemoPlans :
       app' = [app EXCEPT !.current_plan = p, !.displaying = TRUE,
                          !.approved = FALSE, !.shown = "none"]
  /\ UNCHANGED <<agent, dyn, stat>>

\* app.py:239-243: display_plan returns, the stage becomes 'feedback' and
\* the script is rerun.
AppPlanDisplayed ==
  /\ app.workflow_stage = "planning"
  /\ app.displaying
  /\ app' = [app EXCEPT !.workflow_stage = "feedback", !.displaying = FALSE]
  /\ UNCHANGED <<agent, dyn, stat>>

\* app.py:239,123: the run is stopped inside display_plan's st.info, after
\* the plan was stored and before the stage is changed; the next run finds
\* the stage 'planning' and asks for a plan again.
AppPlanRunStopped ==
  /\ app.workflow_stage = "planning"
  /\ app.displaying
  /\ app' = [app EXCEPT !.displaying = FALSE]
  /\ UNCHANGED <<agent, dyn, stat>>

\* app.py:227-235: generate_plan raises; the run ends with the exception
\* shown and the session state as it was.
AppPlanFails ==
  /\ app.workflow_stage = "planning"
  /\ ~app.displaying
  /\ app' = [app EXCEPT !.shown = "exception"]
  /\ UNCHANGED <<agent, dyn, stat>>

\* app.py:273-275: the run that serves a click on "Approve Plan", made on
\* the page of the current plan or, during the wait for a revised plan, on
\* the page of the plan before it.
AppApprove ==
  /\ app.workflow_stage = "feedback"
  /\ ~app.regenerating
  /\ app.click \in {"none", "approve"}
  /\ app' = [app EXCEPT !.workflow_stage = "executing", !.event = "approve",
                        !.approved = TRUE, !.shown = "none",
                        !.approved_plan = IF app.click = "approve" THEN app.clicked_on
                                          ELSE app.current_plan,
                        !.click = "none", !.clicked_on = NoDemoPlan]
  /\ UNCHANGED <<agent, dyn, stat>>

\* app.py:276-281: the run that serves a click on "Reject Plan".
AppReject ==
  /\ app.workflow_stage = "feedback"
  /\ ~app.regenerating
  /\ app.click \in {"none", "reject"}
  /\ app' = [app EXCEPT !.workflow_stage = "input", !.current_plan = NoDemoPlan,
                        !.user_feedback = <<>>, !.event = "reject",
                        !.approved = FALSE, !.shown = "none",
                        !.click = "none", !.clicked_on = NoDemoPlan]
  /\ UNCHANGED <<agent, dyn, stat>>

\* app.py:282-292: the run that serves a click on "Submit Feedback".  With
\* text in the box the feedback is stored and the run waits for
\* generate_plan; with none the run does nothing.
AppSubmitFeedback ==
  /\ app.workflow_stage = "feedback"
  /\ ~app.regenerating
  /\ app.click \in {"none", "feedback"}
  /\ \E feedback \in FeedbackTexts :
       app' = IF feedback = <<>>
                THEN [app EXCEPT !.event = "feedback", !.shown = "none",
                                 !.click = "none", !.clicked_on = NoDemoPlan]
                ELSE [app EXCEPT !.user_feedback = feedback, !.event = "feedback",
                                 !.shown = "none", !.regenerating = TRUE,
                                 !.click = "none", !.clicked_on = NoDemoPlan]
  /\ UNCHANGED <<agent, dyn, stat>>

\* app.py:258-269,286-292: while the run waits for the revised plan the
\* page still shows the current plan and its three buttons; the user clicks
\* one of them.  The click is served when the waiting run has stopped.
AppClickWhileRegenerating ==
  /\ app.workflow_stage = "feedback"
  /\ app.regenerating
  /\ app.click = "none"
  /\ \E button \in {"approve", "reject", "feedback"} :
       app' = [app EXCEPT !.click = button, !.clicked_on = app.current_plan]
  /\ UNCHANGED <<agent, dyn, stat>>

\* app.py:288-296: generate_plan returns the revised plan, which replaces
\* the current one, or raises, and the run ends with the exception shown.
AppPlanRegenerated ==
  /\ app.workflow_stage = "feedback"
  /\ app.regenerating
  /\ \E raises \in BOOLEAN, new_plan \in DemoPlans :
       app' = IF raises
                THEN [app EXCEPT !.shown = "exception", !.regenerating = FALSE]
                ELSE [app EXCEPT !.current_plan = new_plan, !.regenerating = FALSE]
  /\ UNCHANGED <<agent, dyn, stat>>

\* app.py:299-317: the run of the executing stage.
AppExecute ==
  /\ app.workflow_stage = "executing"
  /\ \E n \in 0..Len(app.current_plan.steps) :
       /\ MayFailAt(app.current_plan, n)
       /\ LET r == execute_plan(app.current_plan, n, "boom")
          IN  app' = [app EXCEPT !.execution_results = r.results,
                                 !.final_answer = r.answer,
                                 !.workflow_stage = "completed",
                                 !.shown = "none"]
  /\ UNCHANGED <<agent, dyn, stat>>

\* app.py:320-340: "Start Over" is clicked.
AppStartOver ==
  /\ app.workflow_stage = "completed"
  /\ app' = [app EXCEPT !.workflow_stage = "input", !.current_query = "",
                        !.current_plan = NoDemoPlan, !.execution_results = <<>>,
                        !.final_answer = <<>>, !.user_feedback = <<>>,
                        !.event = "start_over", !.approved = FALSE,
                        !.shown = "none"]
  /\ UNCHANGED <<agent, dyn, stat>>

\* app.py:343-351: the run of the dynamic stage.  dynamic_solve is the one
\* imported from naive_demo, whose first iteration raises NameError.
AppDynamicRun ==
  /\ app.workflow_stage = "dynamic"
  /\ PromptRaises("src", QuestionDefinedOnImport)
  /\ app' = [app EXCEPT !.shown = "exception"]
  /\ UNCHANGED <<agent, dyn, stat>>

NextApp ==
  \/ AppGeneratePlan
  \/ AppRunDynamic
  \/ AppPlanGenerated
  \/ AppPlanDisplayed
  \/ AppPlanRunStopped
  \/ AppPlanFails
  \/ AppApprove
  \/ AppReject
  \/ AppSubmitFeedback
  \/ AppClickWhileRegenerating
  \/ AppPlanRegenerated
  \/ AppExecute
  \/ AppStartOver
  \/ AppDynamicRun

SpecApp == InitApp /\ [][NextApp]_vars

-----------------------------------------------------------------------------
(* What the claims speak about, stated on the plan itself                  *)

\* Plan.validate has been called on the plan and has returned.
Validated ==
  /\ pc \notin {"received", "parsed", "pending", "judging"}
  /\ failure \notin {"parser", "proposer", "get_lm"}

StepNumbers == 1..Len(plan.steps)

Registered(n) == plan.steps[n].action \in DOMAIN registry

\* The non-empty output keys of the steps strictly before step n.
EarlierKeys(n) ==
  { plan.steps[m].output_key : m \in 1..(n - 1) } \ {""}

\* <<n, j>>: entry j of step n's input_mapping names a key that no strictly
\* earlier step produces.
BadReferences ==
  { r \in StepNumbers \X (1..2) :
      /\ r[2] <= Len(plan.steps[r[1]].input_mapping)
      /\ plan.steps[r[1]].input_mapping[r[2]][2] \notin EarlierKeys(r[1]) }

\* Step n writes a non-empty key that an earlier step writes too.
RepeatsKey(n) == plan.steps[n].output_key \in EarlierKeys(n)

UnknownSteps == { n \in StepNumbers : ~Registered(n) }

Least(S) == CHOOSE x \in S : \A y \in S : x <= y

\* The message names step n and the missing key.
NamesStepAndKey(msg, n, key) ==
  \E name \in ActionNames, param \in {"q", "lm"} :
     msg = MissingInputMsg(n, name, param, key)

Tokens(msg) == { msg[i] : i \in 1..Len(msg) }

\* C1 (as stated): a plan with a reference to a key that no strictly earlier
\* step produces is rejected, and the message names such a step and its
\* missing key.
C1_Original ==
  (Validated /\ BadReferences # {}) =>
     /\ ~verdict.ok
     /\ \E r \in BadReferences :
          NamesStepAndKey(verdict.message, r[1],
                          plan.steps[r[1]].input_mapping[r[2]][2])

\* C1 (amended): such a plan is always rejected; the message names the step
\* and key of the first such reference whenever that step and all earlier
\* ones carry registered actions and no earlier step repeats an output key.
C1_ForwardReferenceRejected ==
  (Validated /\ BadReferences # {}) =>
     /\ ~verdict.ok
     /\ LET n == Least({ r[1] : r \in BadReferences })
            j == Least({ r[2] : r \in { b \in BadReferences : b[1] = n } })
            entry == plan.steps[n].input_mapping[j]
        IN  ((\A m \in 1..n : Registered(m)) /\ (\A m \in 1..(n - 1) : ~RepeatsKey(m)))
              => verdict.message =
                   MissingInputMsg(n, plan.steps[n].action, entry[1], entry[2])

\* A step consumes its own output key, behind an entry that is satisfied, and
\* validate has reported exactly that.
C1_Witness ==
  /\ Validated
  /\ Len(plan.steps) = 2
  /\ plan.steps[1].output_key = "k1"
  /\ plan.steps[2].input_mapping = << <<"q", "k1">>, <<"lm", "k2">> >>
  /\ plan.steps[2].output_key = "k2"
  /\ verdict = Reject(MissingInputMsg(2, "WebSearch", "lm", "k2"))

\* C3: a plan in which two steps share a non-empty output_key is rejected,
\* wherever the two steps are.
C3_DuplicateKeyRejected ==
  (Validated /\ \E n \in StepNumbers : RepeatsKey(n)) => ~verdict.ok

\* The first and the last of three steps write the same key and the
\* duplicate-key check is what rejected the plan.
C3_Witness ==
  /\ Validated
  /\ Len(plan.steps) = 3
  /\ plan.steps[1].output_key = "k1"
  /\ plan.steps[2].output_key = ""
  /\ plan.steps[3].output_key = "k1"
  /\ verdict = Reject(DuplicateKeyMsg("k1", 3, "WebSearch"))

\* C4: Plan.validate on a plan without steps always returns not-ok, with
\* the no-steps message, whatever the registry holds and whatever the judge
\* would answer; the judge is not asked.
C4_EmptyPlanRejected ==
  (Len(plan.steps) = 0 /\ pc # "pending") =>
     /\ pc \in {"validated", "revalidated"}
     /\ verdict = Reject(NoStepsMsg)
     /\ judgeLog = <<>>

\* C5 (as stated): a plan with a step whose action is not registered is
\* rejected and the message contains the name of such an action.
C5_Original ==
  (Validated /\ UnknownSteps # {}) =>
     /\ ~verdict.ok
     /\ \E n \in UnknownSteps : plan.steps[n].action \in Tokens(verdict.message)

\* C5 (amended): such a plan is always rejected; the message is the
\* unknown-action message of the first such step whenever no earlier step
\* has a bad input reference or repeats an output key.
C5_UnknownActionRejected ==
  (Validated /\ UnknownSteps # {}) =>
     /\ ~verdict.ok
     /\ LET n == Least(UnknownSteps)
        IN  (\A m \in 1..(n - 1) :
                /\ ~RepeatsKey(m)
                /\ \A r \in BadReferences : r[1] # m)
              => verdict.message = UnknownActionMsg(plan.steps[n].action, n)

\* The unregistered action is in the last of three steps and validate has
\* named it.
C5_Witness ==
  /\ Validated
  /\ Len(plan.steps) = 3
  /\ UnknownSteps = {3}
  /\ verdict = Reject(UnknownActionMsg("Teleport", 3))

\* The reply begins with "yes" in any mix of upper and lower case.
SaysYes(reply) ==
  /\ Len(reply) >= 3
  /\ reply[1] \in {"Y", "y"}
  /\ reply[2] \in {"E", "e"}
  /\ reply[3] \in {"S", "s"}

\* C6: validate accepts exactly the plans that are non-empty, use registered
\* actions only, reference only keys of strictly earlier steps, do not
\* repeat a non-empty output key, and that the judge answers yes to.
C6_AcceptsExactlyTheValidPlans ==
  Validated =>
    (verdict.ok <=>
       /\ Len(plan.steps) > 0
       /\ UnknownSteps = {}
       /\ BadReferences = {}
       /\ \A n \in StepNumbers : ~RepeatsKey(n)
       /\ Len(judgeLog) = 1
       /\ ~judgeLog[1].raises
       /\ SaysYes(judgeLog[1].text))

\* A three-step plan with a data flow through both keys and a step without
\* output key was accepted on an upper-case "YES.".
C6_Witness ==
  /\ Validated
  /\ verdict = Accept
  /\ Len(plan.steps) = 3
  /\ plan.steps[1].output_key = "k1"
  /\ plan.steps[2].input_mapping = << <<"q", "k1">> >>
  /\ plan.steps[2].output_key = "k2"
  /\ plan.steps[3].input_mapping = << <<"q", "k1">>, <<"lm", "k2">> >>
  /\ plan.steps[3].output_key = ""
  /\ judgeLog = << [raises |-> FALSE, text |-> <<"Y","E","S",".">>] >>

-----------------------------------------------------------------------------
(* Execution                                                               *)

Executing == pc \in {"loop", "call", "summary"}

\* Steps whose action has been invoked / has returned so far.
Invoked == { calls[i].step : i \in 1..Len(calls) }

Keyed(n) == plan.steps[n].output_key # ""

\* C2: in the execution of a plan that validate accepted, no read of the
\* execution context misses: when a step is about to resolve its inputs,
\* every source key of its input_mapping is in the context.
C2_ValidatedPlanNeverMissesKey ==
  verdict.ok =>
    /\ failure # "key_error"
    /\ (pc = "loop" =>
          \A j \in 1..Len(plan.steps[cursor + 1].input_mapping) :
             plan.steps[cursor + 1].input_mapping[j][2] \in DOMAIN ctx)

\* The third step of an accepted plan is about to read both keys.
C2_Witness ==
  /\ verdict.ok
  /\ pc = "loop"
  /\ cursor = 2
  /\ plan.steps[3].input_mapping = << <<"q", "k1">>, <<"lm", "k2">> >>

\* C7: the actions are invoked in plan order, one at a time; when the action
\* of step n + 1 is invoked, step n's action has returned and its output, if
\* it has an output_key, is in the execution context and in raw_outputs; so
\* step_2 is never in raw_outputs without step_1.
C7_SequentialInPlanOrder ==
  /\ \A i \in 1..Len(calls) : calls[i].step = i
  /\ Len(calls) = IF pc = "call" THEN cursor + 1 ELSE
                  IF failure = "action" THEN cursor + 1 ELSE cursor
  /\ DOMAIN returned = 1..cursor
  /\ \A n \in 1..Len(calls) : \A m \in 1..(n - 1) :
        /\ m \in DOMAIN returned
        /\ Keyed(m) =>
             /\ plan.steps[m].output_key \in DOMAIN ctx
             /\ ctx[plan.steps[m].output_key] = returned[m]
             /\ StepKey(m) \in DOMAIN outputs
             /\ outputs[StepKey(m)] = returned[m]
  /\ (StepKey(2) \in DOMAIN outputs /\ Len(plan.steps) >= 1 /\ Keyed(1))
        => StepKey(1) \in DOMAIN outputs

\* The second step's action is running, the first step's output is stored
\* and the second step's is not yet.
C7_Witness ==
  /\ pc = "call"
  /\ cursor = 1
  /\ Keyed(1) /\ Keyed(2)
  /\ StepKey(1) \in DOMAIN outputs
  /\ StepKey(2) \notin DOMAIN outputs

\* The value that the latest earlier step writing key `key` returned.
ProducedBefore(n, key) ==
  returned[CHOOSE m \in 1..(n - 1) :
             /\ plan.steps[m].output_key = key
             /\ \A m2 \in 1..(n - 1) : plan.steps[m2].output_key = key => m2 <= m]

\* C8 (as stated): every parameter that a step's input_mapping maps to the
\* output key of an earlier step is passed to the action with exactly the
\* value that earlier step returned.
C8_Original ==
  \A i \in 1..Len(calls) :
    LET n == calls[i].step
        mapping == plan.steps[n].input_mapping
    IN  \A j \in 1..Len(mapping) :
          mapping[j][2] \in EarlierKeys(n) =>
            calls[i].kwargs[mapping[j][1]] = ProducedBefore(n, mapping[j][2])

\* C8 (amended): the same for every parameter other than 'lm'; the keyword
\* arguments are exactly the mapped parameters and 'lm'.
C8_DataFlowBinding ==
  \A i \in 1..Len(calls) :
    LET n == calls[i].step
        mapping == plan.steps[n].input_mapping
    IN  /\ DOMAIN calls[i].kwargs =
             { mapping[j][1] : j \in 1..Len(mapping) } \cup {"lm"}
        /\ \A j \in 1..Len(mapping) :
             (mapping[j][2] \in EarlierKeys(n) /\ mapping[j][1] # "lm") =>
               calls[i].kwargs[mapping[j][1]] = ProducedBefore(n, mapping[j][2])

\* The third step consumes the first step's output while the context holds a
\* different value under the second step's key.
C8_Witness ==
  /\ Len(calls) = 3
  /\ plan.steps[1].output_key = "k1"
  /\ plan.steps[2].output_key = "k2"
  /\ plan.steps[3].input_mapping = << <<"q", "k1">> >>
  /\ returned[1] = "a"
  /\ returned[2] = "b"
  /\ calls[3].kwargs["q"] = "a"

\* raw_outputs as the claims describe it: step_N for each of the first n
\* steps that has an output_key, with the value its action returned.
OutputsOfFirst(n) ==
  [k \in { StepKey(m) : m \in { x \in 1..n : Keyed(x) } } |->
     returned[CHOOSE m \in 1..n : StepKey(m) = k]]

\* C9: when the action of step k raises, the Result is failed and its
\* raw_outputs holds exactly the outputs recorded for the steps before k
\* (step_N for each such step with an output_key, with the value its action
\* returned) and nothing for step k or a later step.
C9_PartialFailurePreservation ==
  failure = "action" =>
    LET k == calls[Len(calls)].step
    IN  /\ pc = "done"
        /\ ~success(result)
        /\ result.error.set
        /\ result.error.text \in ActionErrorTexts
        /\ result.raw_outputs = OutputsOfFirst(k - 1)
        /\ \A m \in k..Len(plan.steps) : StepKey(m) \notin DOMAIN result.raw_outputs

\* The second of three steps raised after the first stored its output.
C9_Witness ==
  /\ failure = "action"
  /\ Len(plan.steps) = 3
  /\ Len(calls) = 2
  /\ Keyed(1) /\ Keyed(2)
  /\ DOMAIN result.raw_outputs = {StepKey(1)}

\* C10: once a step's action has raised, execution is over: the failed
\* Result is there, no later step's action is invoked and the summary query
\* is never issued.
C10_StopsAtFirstFailure ==
  /\ [](failure = "action" =>
          /\ pc = "done"
          /\ summaryCalls = 0
          /\ Len(calls) = cursor + 1)
  /\ [][failure = "action" => (calls' = calls /\ summaryCalls' = summaryCalls)]_vars

\* The first of three steps raised.
C10_Witness ==
  /\ failure = "action"
  /\ pc = "done"
  /\ Len(plan.steps) = 3
  /\ Len(calls) = 1

-----------------------------------------------------------------------------
(* The Result handed back                                                  *)

\* The steps whose action has returned successfully so far.
ReturnedSteps == DOMAIN returned

\* C11 (as stated): Result.success is true exactly when the plan ran to
\* completion: the Result returned after every step and the summary
\* succeeded has success = true, the Result of a validation failure or of a
\* failed step has success = false.
C11_SuccessIffCompleted ==
  pc = "done" => (success(result) <=> failure = "none")

\* C12: when every action and the summarizer of a validated plan succeeded,
\* raw_outputs maps "step_" + (i+1) to the value the action of step i
\* returned, for exactly the steps that have an output_key.
C12_RawOutputsOfCompletedPlan ==
  (pc = "done" /\ failure = "none") =>
     /\ ReturnedSteps = StepNumbers
     /\ DOMAIN result.raw_outputs = { StepKey(n) : n \in { m \in StepNumbers : Keyed(m) } }
     /\ \A n \in StepNumbers :
          Keyed(n) => result.raw_outputs[StepKey(n)] = returned[n]

\* A completed three-step plan whose middle step has no output_key.
C12_Witness ==
  /\ pc = "done"
  /\ failure = "none"
  /\ Len(plan.steps) = 3
  /\ Keyed(1) /\ ~Keyed(2) /\ Keyed(3)
  /\ returned[1] # returned[3]
  /\ DOMAIN result.raw_outputs = {StepKey(1), StepKey(3)}

\* The texts that describe the failure of the collaborator that failed.
FailureDescriptions ==
  CASE failure \in {"parser", "summary"} -> ErrorTexts
    [] failure = "action" -> ActionErrorTexts
    [] failure = "proposer" ->
         IF plan_dict.given
           THEN { ConversionError(plan_dict.dict.steps[n], actions, lib) :
                    n \in 1..Len(plan_dict.dict.steps), lib \in Libraries } \ { <<>> }
           ELSE ErrorTexts
    [] failure = "validation" ->
         IF judgeLog # <<>> /\ judgeLog[Len(judgeLog)].raises
           THEN { JudgeErrorMsg(judgeLog[Len(judgeLog)].text) }
           ELSE { verdict.message }
    [] failure = "key_error" -> { KeyErrorText(k) : k \in Keys }
    [] OTHER -> {}

\* C13: whichever collaborator fails (parser, proposer, judge, an action,
\* the summarizer), the call ends with a Result whose error is set to the
\* description of that failure; a call yields one Result and, once it has
\* one, takes no further step.
C13_EveryFailureBecomesAResult ==
  /\ [](failure # "none" =>
          /\ pc = "done"
          /\ result.error.set
          /\ result.error.text \in FailureDescriptions)
  /\ [](pc = "done" <=> result # NoResult)
  /\ [][result = NoResult]_vars

\* The request parser raised and the caller holds the Result describing it.
C13_Witness ==
  /\ failure = "parser"
  /\ pc = "done"
  /\ result.summary = "Request processing failed"
  /\ result.error = Str(<<"boom">>)

\* C14: when validate returns not-ok the request ends with a failed Result
\* whose error is the validator's message and whose raw_outputs is empty,
\* and no action has been invoked, no output stored and no summary asked.
C14_ValidationFailureShortCircuits ==
  (Validated /\ ~verdict.ok) =>
     /\ pc = "done"
     /\ failure = "validation"
     /\ ~success(result)
     /\ result.error = Str(verdict.message)
     /\ result.raw_outputs = EmptyDict
     /\ calls = <<>>
     /\ returned = EmptyDict
     /\ ctx = EmptyDict
     /\ summaryCalls = 0

\* The judge turned down a structurally valid three-step plan.
C14_Witness ==
  /\ failure = "validation"
  /\ Len(plan.steps) = 3
  /\ judgeLog # <<>>
  /\ result.summary = "Plan validation failed"

\* C15 (as stated): the completed-steps count in the metadata of a failed
\* Result equals the number of steps whose action returned successfully,
\* whether or not those steps have an output_key.
C15_CountsEveryCompletedStep ==
  (pc = "done" /\ failure \in {"action", "summary", "key_error"}) =>
     result.metadata.completed_steps = Cardinality(ReturnedSteps)

\* C16 (as stated): the metadata of the failed Result of a failing step
\* records the index of the step that failed, counted from 0 or from 1.
C16_RecordsFailingStepIndex ==
  (pc = "done" /\ failure = "action") =>
     \E field \in (DOMAIN result.metadata) \ {"goal"} :
        result.metadata[field] \in {Len(calls) - 1, Len(calls)}

\* C20: while a validated plan executes, every step transition keeps each
\* key of the execution context, with its value: the context only gains keys.
C20_ContextGrowsMonotonically ==
  [][(Executing /\ verdict.ok) =>
       \A k \in DOMAIN ctx : k \in DOMAIN ctx' /\ ctx'[k] = ctx[k]]_vars

\* Two steps have stored their outputs, the second next to the first.
C20_Witness ==
  /\ verdict.ok
  /\ cursor = 2
  /\ DOMAIN ctx = {"k1", "k2"}
  /\ ctx["k1"] = returned[1]
  /\ ctx["k2"] = returned[2]
  /\ returned[1] # returned[2]

-----------------------------------------------------------------------------
(* Repeated validation                                                     *)

\* C17 (as stated): the second validate call on the same unmodified plan,
\* with the same registry, returns the (ok, message) pair of the first.
C17_ValidateIsIdempotent ==
  [][(pc' = "revalidated") => (verdict' = verdict)]_vars

\* C18: a validate call, accepting or rejecting, leaves the plan (goal,
\* steps, input mappings, output keys), the action registry and the Agent's
\* execution context as they were.
C18_ValidateChangesNothing ==
  [][(pc = "pending" \/ pc = "judging" \/ pc = "validated" \/ pc = "rejudging") =>
       (plan' = plan /\ registry' = registry /\ ctx' = ctx)]_vars

\* A plan was validated twice, rejected then accepted, next to an Agent
\* that still holds the context of an earlier execution.
C18_Witness ==
  /\ pc = "revalidated"
  /\ Len(plan.steps) = 3
  /\ Len(judgeLog) = 2
  /\ ~Affirmative(judgeLog[1].text)
  /\ verdict.ok
  /\ ctx = LeftoverContext

-----------------------------------------------------------------------------
(* Two executions on one Agent                                             *)

\* The value that the latest step before n writing `key` returned in the
\* second call.
OtherProducedBefore(n, key) ==
  other.returned[CHOOSE m \in 1..(n - 1) :
                   /\ plan.steps[m].output_key = key
                   /\ \A m2 \in 1..(n - 1) : plan.steps[m2].output_key = key => m2 <= m]

\* Every mapped parameter (other than lm, which agent.py:187 overwrites) of
\* the kwargs `ins` of step n holds what `produced` says the call's own
\* earlier step returned.
ReadsOwnValues(ins, n, produced(_, _)) ==
  \A j \in 1..Len(plan.steps[n].input_mapping) :
     LET param  == plan.steps[n].input_mapping[j][1]
         source == plan.steps[n].input_mapping[j][2]
     IN  param # "lm" => ins[param] = produced(n, source)

\* C19 (as stated): two executions interleaved on the same Agent are
\* independent: neither misses a value it wrote because the other cleared
\* it, neither reads a value the other wrote, and so each ends with the
\* Result it would get running alone (for a validated plan, never a
\* KeyError failure).
C19_IndependentExecutions ==
  /\ failure # "key_error"
  /\ other.failure # "key_error"
  /\ pc = "call" => ReadsOwnValues(inputs, cursor + 1, ProducedBefore)
  /\ other.pc = "call" => ReadsOwnValues(other.inputs, other.cursor + 1, OtherProducedBefore)

-----------------------------------------------------------------------------
(* Registration                                                            *)

\* C21: registering a class under a name (the explicit name, or the class
\* name by default) that the registry already holds fails at registration
\* time and leaves the registry as it was, the name still mapped to the
\* class registered first; a free name is registered without error.
C21_DuplicateRegistrationRejected ==
  registration # NoRegistration =>
    /\ registration.raised <=> registration.name \in DOMAIN registration.before
    /\ registration.raised =>
         /\ registry = registration.before
         /\ registration.error = AlreadyRegisteredError(registration.name)
    /\ ~registration.raised =>
         /\ registry[registration.name] = registration.cls
         /\ \A n \in DOMAIN registration.before :
              n \in DOMAIN registry /\ registry[n] = registration.before[n]

\* Teleport asked for the name WebSearch, which WebSearch holds: the call
\* raised and the name still maps to WebSearch.
C21_Witness ==
  /\ registration.raised
  /\ registration.name = "WebSearch"
  /\ registration.cls = "Teleport"
  /\ registry["WebSearch"] = "WebSearch"

-----------------------------------------------------------------------------
(* One execution after another                                             *)

\* C22 (as stated): a source key missing from the execution context is
\* reported distinguishably from an action failure: the Result of such an
\* execution differs from every Failed Result that the same execution would
\* return had the step's action raised instead.
C22_MissingKeyIsDistinguishable ==
  (pc = "done" /\ failure = "key_error") =>
     \A e \in ActionErrorTexts : result # FailedResult(plan, outputs, e)

\* Some step of this execution returned v.
ReturnedHere(v) == \E n \in DOMAIN returned : returned[n] = v

\* C30: an execution starts from an empty context: once _execute_plan has
\* started, every key of the context was written by a step of this
\* execution, every mapped value handed to an action was returned by an
\* earlier step of this execution, and raw_outputs (as built so far and as
\* returned) holds only values returned in this execution.
C30_StartsFromEmptyContext ==
  pc # "ready" =>
    /\ \A k \in DOMAIN ctx :
         \E n \in DOMAIN returned : plan.steps[n].output_key = k /\ ctx[k] = returned[n]
    /\ \A i \in 1..Len(calls) :
         \A param \in (DOMAIN calls[i].kwargs) \ {"lm"} :
            \E n \in DOMAIN returned :
               n < calls[i].step /\ calls[i].kwargs[param] = returned[n]
    /\ \A k \in DOMAIN outputs : ReturnedHere(outputs[k])
    /\ \A k \in DOMAIN result.raw_outputs : ReturnedHere(result.raw_outputs[k])

\* The second step read the k1 that the first step of this execution wrote;
\* the k2 of the previous execution is gone.
C30_Witness ==
  /\ pc = "done"
  /\ failure = "none"
  /\ Len(calls) = 2
  /\ "q" \in DOMAIN calls[2].kwargs
  /\ calls[2].kwargs["q"] = returned[1]
  /\ DOMAIN ctx = {"k1"}
  /\ DOMAIN result.raw_outputs = {StepKey(1)}

-----------------------------------------------------------------------------
(* Unknown action names from the proposer                                  *)

\* The steps of the proposer's answer that name an action the registry copy
\* does not hold.
UnknownNamed ==
  { n \in 1..Len(plan_dict.dict.steps) :
      /\ plan_dict.dict.steps[n].absent # "action"
      /\ plan_dict.dict.steps[n].action \notin DOMAIN actions }

\* The proposer returned a step naming an action absent from the registry.
ProposedUnknownAction == plan_dict.given /\ UnknownNamed # {}

\* Step n of the answer carries all four keys and names a registered action
\* whose branch of the conversion gives the constructor what it declares
\* (agent.py:130-135).
SurelyConverted(n) ==
  /\ plan_dict.dict.steps[n].absent = ""
  /\ plan_dict.dict.steps[n].action \in
       {"WebSearch", "FetchWebContent", "ExtractEntities"} \cap DOMAIN actions

\* Step n of the answer names the registered GenerateReport, whose branch
\* (agent.py:136-137) passes keywords the class does not declare.
NamesGenerateReport(n) ==
  /\ plan_dict.dict.steps[n].absent # "action"
  /\ plan_dict.dict.steps[n].action = "GenerateReport"
  /\ "GenerateReport" \in DOMAIN actions

\* C23 (as stated): when the proposer returns a step naming an action
\* absent from the registry, the Validator rejects the request:
\* process_request returns the validation-failure Result, whose error is the
\* validator's unknown-action message, and no action is executed.
C23_Original ==
  ProposedUnknownAction =>
    /\ result.summary = "Plan validation failed"
    /\ \E name \in ProposalNames, n \in 1..MaxProposedSteps :
         result.error = Str(UnknownActionMsg(name, n))
    /\ calls = <<>>

\* C23 (amended): such a request is rejected by the proposer's own
\* conversion loop, before validation: process_request returns the "Request
\* processing failed" Result with empty raw_outputs and the raw request in
\* its metadata, validate is never called, and no action is executed.  The
\* error is the text of what the loop raised at the first step it could not
\* convert: "Unknown action: <name>" for the first step naming an absent
\* action when every step before it is converted, and another text when a
\* step before it names GenerateReport or lacks a key.  A plan that does
\* leave the proposer names registered actions only.
C23_UnknownActionRejectedByProposer ==
  [][(pc = "parsed") =>
       ( (pc' = "pending" =>
            \A n \in 1..Len(plan'.steps) : plan'.steps[n].action \in DOMAIN registry)
         /\ (ProposedUnknownAction' =>
               ( pc' = "done"
                 /\ failure' = "proposer"
                 /\ result'.summary = "Request processing failed"
                 /\ result'.error.set
                 /\ result'.raw_outputs = EmptyDict
                 /\ result'.metadata = [request |-> RequestText]
                 /\ verdict' = Reject(<<>>)
                 /\ judgeLog' = <<>>
                 /\ calls' = <<>>
                 /\ LET first == Least(UnknownNamed')
                        named == Str(UnknownActionError(plan_dict'.dict.steps[first].action))
                    IN  /\ (\A m \in 1..(first - 1) : SurelyConverted(m)') =>
                              (result'.error = named)
                        /\ (\E m \in 1..(first - 1) :
                              NamesGenerateReport(m)' \/ plan_dict'.dict.steps[m].absent # "") =>
                              (result'.error # named) )) )]_vars

\* The proposer answered with a WebSearch step followed by a Teleport step,
\* which the startup registry does not hold.
C23_Witness ==
  /\ ProposedUnknownAction
  /\ registry = StartupRegistry
  /\ Len(plan_dict.dict.steps) = 2
  /\ plan_dict.dict.steps[1].action = "WebSearch"
  /\ plan_dict.dict.steps[1].absent = ""
  /\ plan_dict.dict.steps[2].action = "Teleport"
  /\ result.error = Str(UnknownActionError("Teleport"))
  /\ result.summary = "Request processing failed"

-----------------------------------------------------------------------------
(* The two halves of validate                                              *)

\* A validate call on the plan has returned a pair.
Returned == pc \in {"validated", "revalidated"}

\* Positions of step n's input_mapping whose source no earlier step produces.
BadEntries(n) == { r[2] : r \in { x \in BadReferences : x[1] = n } }

\* Steps with a structural defect of their own.
DefectiveSteps ==
  { n \in StepNumbers : ~Registered(n) \/ BadEntries(n) # {} \/ RepeatsKey(n) }

StructurallyValid == Len(plan.steps) > 0 /\ DefectiveSteps = {}

\* What the judge did in the latest call that consulted it.
LastJudgement == judgeLog[Len(judgeLog)]

\* r is a run of consecutive characters of reply.
PartOf(r, reply) ==
  \E i \in 1..Len(reply), j \in 1..Len(reply) : r = SubSeq(reply, i, j)

\* The message is the "deemed unreasonable" one and ends with a piece of
\* the judge's reply, or with the stock text when no reason is left.
CarriesReason(msg, reply) ==
  \E r \in { SubSeq(msg, 2, Len(msg)) } :
     /\ msg = UnreasonableMsg(<<>>) \/ (r # <<>> /\ PartOf(r, reply))
     /\ msg[1] = UnreasonableMsg(<<>>)[1]

\* C24: for a structurally valid plan validate returns ok only when the
\* judge answered affirmatively; a non-affirmative answer gives not-ok with
\* the judge's reason in the message, and a failed judge call gives not-ok
\* with the failure's text in the message.
C24_JudgeDecidesValidPlans ==
  (Returned /\ StructurallyValid) =>
     /\ judgeLog # <<>>
     /\ verdict.ok <=> (~LastJudgement.raises /\ SaysYes(LastJudgement.text))
     /\ LastJudgement.raises => verdict = Reject(JudgeErrorMsg(LastJudgement.text))
     /\ (~LastJudgement.raises /\ ~SaysYes(LastJudgement.text)) =>
          CarriesReason(verdict.message, LastJudgement.text)

\* The judge answered "No, bad" and the message ends with "bad".
C24_Witness ==
  /\ Returned
  /\ StructurallyValid
  /\ Len(plan.steps) = 3
  /\ LastJudgement = [raises |-> FALSE, text |-> <<"N", "o", ",", " ", "b", "a", "d">>]
  /\ verdict.message = UnreasonableMsg(<<"b", "a", "d">>)

\* C25 (as stated): when a structural check fails, a validate call returns
\* that structural failure without consulting the judge, whether the
\* language model is available, unavailable or failing.
C25_StructuralVerdictIgnoresJudge ==
  (pc # "pending" /\ ~StructurallyValid) =>
     /\ Returned
     /\ verdict = StructuralCheck(plan, registry)
     /\ judgeLog = <<>>

\* C26: first failure wins: for a plan with structural defects validate
\* reports the earliest defective step, and of that step the unknown action
\* before a bad input reference (the first in mapping order), and a bad
\* input reference before a duplicate output key.
C26_FirstFailureWins ==
  (Returned /\ DefectiveSteps # {}) =>
     LET n    == Least(DefectiveSteps)
         step == plan.steps[n]
     IN  verdict =
           Reject(IF ~Registered(n) THEN UnknownActionMsg(step.action, n)
                  ELSE IF BadEntries(n) # {} THEN
                    MissingInputMsg(n, step.action,
                                    step.input_mapping[Least(BadEntries(n))][1],
                                    step.input_mapping[Least(BadEntries(n))][2])
                  ELSE DuplicateKeyMsg(step.output_key, n, step.action))

\* Step 2 has a bad reference and repeats step 1's key, step 3 is unknown:
\* the message is about step 2's input.
C26_Witness ==
  /\ Returned
  /\ Len(plan.steps) = 3
  /\ DefectiveSteps = {2, 3}
  /\ BadEntries(2) # {}
  /\ RepeatsKey(2)
  /\ ~Registered(3)
  /\ \E param \in {"q", "lm"}, key \in Keys :
       verdict.message = MissingInputMsg(2, "WebSearch", param, key)

-----------------------------------------------------------------------------
(* Termination                                                             *)

Completed == pc = "done" /\ failure = "none" /\ result.summary \in Summaries

Failed ==
  /\ pc = "done"
  /\ failure # "none"
  /\ result.summary = "Plan execution failed"

\* C28: when every call that is waited for returns or raises, the execution
\* reaches a terminal state, which is exactly one of Completed and Failed;
\* the step cursor never moves but forward by one step, and no step is
\* taken from a terminal state.
C28_ReachesOneTerminalState ==
  /\ <>(pc = "done")
  /\ [](pc = "done" => (Completed /\ ~Failed) \/ (Failed /\ ~Completed))
  /\ [][cursor' = cursor \/ cursor' = cursor + 1]_vars
  /\ [][pc # "done"]_vars

\* A two-step plan ran both its steps and completed.
C28_Witness ==
  /\ Completed
  /\ Len(plan.steps) = 2
  /\ cursor = 2
  /\ Len(calls) = 2

-----------------------------------------------------------------------------
(* What execution does to the plan and its actions                         *)

\* C27: no step of an execution changes the plan (its steps, their
\* input_mapping and output_key) or the field values of the Action instance
\* a step owns; inputs are bound on a clone.
C27_ExecutionLeavesThePlanAlone ==
  [][(plan' = plan) /\ (instances' = instances)]_vars

\* An execution completed in which run was called on a clone whose field q
\* had been bound to an earlier output, the step's instance keeping q = "".
C27_Witness ==
  /\ Completed
  /\ \E i \in DOMAIN runs :
       /\ runs[i].on = "clone"
       /\ runs[i].fields.q \in Values
       /\ instances[runs[i].step].q = ""

\* The calls of run made for step n.
RunsOf(n) == { i \in DOMAIN runs : runs[i].step = n }

\* C29: within one execution the action of each step is run at most once
\* (so never again after it raised).
C29_NoInternalRetry ==
  \A n \in 1..Len(plan.steps) : Cardinality(RunsOf(n)) <= 1

-----------------------------------------------------------------------------
(* Stability of the registry                                               *)

\* C31: no step (a later register_action, validate, execution, a request,
\* a write to the dict get_registered_actions returned) removes a
\* registered name or makes it map to another class.
C31_RegistryEntriesAreStable ==
  [][\A n \in DOMAIN registry : (n \in DOMAIN registry') /\ (registry'[n] = registry[n])]_vars

\* A request ran to its end while a caller had deleted or re-pointed a name
\* in the dict it was handed and a late registration of a taken name had
\* been refused; the registry still has the entry.
C31_Witness ==
  /\ pc = "done"
  /\ handed.given
  /\ registration.raised
  /\ \E n \in DOMAIN registry :
       \/ n \notin DOMAIN handed.dict
       \/ handed.dict[n] # registry[n]

-----------------------------------------------------------------------------
(* Executing a plan nobody validated                                       *)

\* The keys written by the steps before step n.
WrittenBefore(n) == { plan.steps[m].output_key : m \in 1..(n - 1) } \ {""}

\* Step n maps an input from a key that no earlier step wrote.
Dangling(n) ==
  \E j \in DOMAIN plan.steps[n].input_mapping :
    plan.steps[n].input_mapping[j][2] \notin WrittenBefore(n)

\* C32: when step n reads a key no earlier step wrote, neither its action
\* nor a later one is ever invoked, and the execution ends in a failed
\* Result (not in an exception) that holds the output of every step that
\* completed and has an output_key.
C32_InvalidPlanFailsSafely ==
  \A n \in 1..Len(plan.steps) :
    Dangling(n) =>
      /\ \A i \in DOMAIN calls : calls[i].step < n
      /\ cursor < n
      /\ pc = "done" =>
           /\ result.error.set
           /\ result.error.text # <<>>
           /\ result.summary = "Plan execution failed"
           /\ \A m \in DOMAIN returned :
                plan.steps[m].output_key # "" =>
                  /\ StepKey(m) \in DOMAIN result.raw_outputs
                  /\ result.raw_outputs[StepKey(m)] = returned[m]

\* The first step completed and stored its output; the second read a key
\* nobody wrote and the execution ended there with the first output kept.
C32_Witness ==
  /\ pc = "done"
  /\ failure = "key_error"
  /\ Len(plan.steps) >= 2
  /\ ~Dangling(1)
  /\ Dangling(2)
  /\ 1 \in DOMAIN returned
  /\ StepKey(1) \in DOMAIN result.raw_outputs
  /\ Len(calls) = 1

-----------------------------------------------------------------------------
(* The language-model handle among the inputs                              *)

\* C33: every execute call receives the Agent's language-model handle under
\* 'lm', also when the step's input_mapping maps a prior output to 'lm'.
C33_ActionsReceiveTheHandle ==
  \A i \in DOMAIN calls :
    /\ "lm" \in DOMAIN calls[i].kwargs
    /\ calls[i].kwargs["lm"] = LM

\* A step whose input_mapping maps the stored output of an earlier step to
\* 'lm' was called.
C33_Witness ==
  \E i \in DOMAIN calls :
    \E j \in DOMAIN plan.steps[calls[i].step].input_mapping :
      LET entry == plan.steps[calls[i].step].input_mapping[j]
      IN  /\ entry[1] = "lm"
          /\ entry[2] \in DOMAIN ctx
          /\ ctx[entry[2]] \in Values

-----------------------------------------------------------------------------
(* A summarizer that fails                                                 *)

\* The steps that have an output_key.
KeyedSteps == { n \in 1..Len(plan.steps) : plan.steps[n].output_key # "" }

\* C34: when the summary query raises after every step succeeded, the Result
\* is a failed one (error set, summary "Plan execution failed") whose
\* raw_outputs holds the output of exactly the steps with an output_key,
\* completed_steps is their number, and every step was called once.
C34_SummaryFailureKeepsOutputs ==
  (pc = "done" /\ failure = "summary") =>
    /\ result.error.set
    /\ result.error.text \in ErrorTexts
    /\ result.summary = "Plan execution failed"
    /\ DOMAIN result.raw_outputs = { StepKey(n) : n \in KeyedSteps }
    /\ \A n \in KeyedSteps : result.raw_outputs[StepKey(n)] = returned[n]
    /\ result.metadata.completed_steps = Cardinality(KeyedSteps)
    /\ Len(calls) = Len(plan.steps)
    /\ \A n \in 1..Len(plan.steps) : calls[n].step = n
    /\ summaryCalls = 1

\* A plan with a keyed and an unkeyed step ran both, then the summary query
\* raised.
C34_Witness ==
  /\ pc = "done"
  /\ failure = "summary"
  /\ Cardinality(KeyedSteps) >= 1
  /\ Cardinality(KeyedSteps) < Len(plan.steps)
  /\ Len(calls) = Len(plan.steps)

-----------------------------------------------------------------------------
(* raw_outputs and the execution context side by side                      *)

\* The completed steps that have an output_key.
KeyedDone == { n \in 1..cursor : plan.steps[n].output_key # "" }

\* C35: at every point of the execution of a validated plan, raw_outputs and
\* the context have as many entries as there are completed steps with an
\* output_key, and the entry "step_n" of raw_outputs is the context value
\* under the output_key of step n; the Result carries that raw_outputs.
C35_OutputsMirrorContext ==
  /\ Cardinality(DOMAIN outputs) = Cardinality(KeyedDone)
  /\ Cardinality(DOMAIN ctx) = Cardinality(KeyedDone)
  /\ \A n \in KeyedDone :
       /\ StepKey(n) \in DOMAIN outputs
       /\ plan.steps[n].output_key \in DOMAIN ctx
       /\ outputs[StepKey(n)] = ctx[plan.steps[n].output_key]
  /\ (pc = "done" /\ failure \in {"none", "action", "key_error", "summary"}) =>
       result.raw_outputs = outputs

\* Three steps completed, two of them with an output_key: two entries on
\* each side.
C35_Witness ==
  /\ cursor = 3
  /\ Cardinality(KeyedDone) = 2
  /\ Cardinality(DOMAIN outputs) = 2
  /\ Cardinality(DOMAIN ctx) = 2

-----------------------------------------------------------------------------
(* dynamic_solve                                                           *)

\* Some proposed step carried a FinalAnswer.
FinalProposed == \E k \in DOMAIN dyn.proposals : IsFinalAnswer(dyn.proposals[k].action)

\* The language model behind lf.query or behind an action failed.
EnvironmentFailed == dyn.cause \in {"query", "action"}

\* C37: dynamic_solve makes at most max_steps proposals and invokes at most
\* max_steps actions; a step that carries FinalAnswer is neither invoked nor
\* recorded and its answer is returned at once; and when no proposal
\* carries FinalAnswer (and no language model fails) the call returns None
\* with exactly max_steps recorded results, in the order of the proposals.
C37_DynamicSolveIsBounded ==
  /\ dyn.i <= dyn.max_steps
  /\ Len(dyn.invoked) <= dyn.max_steps
  /\ \A k \in DOMAIN dyn.invoked : ~IsFinalAnswer(dyn.invoked[k].action)
  /\ \A k \in DOMAIN dyn.past_steps : ~IsFinalAnswer(dyn.past_steps[k].step.action)
  /\ (dyn.pc = "returned" /\ FinalProposed) =>
       /\ dyn.answer = Str(<<NextStep.action.final_answer>>)
       /\ Len(dyn.past_steps) = Len(dyn.proposals) - 1
  /\ (dyn.pc \in {"returned", "raised"} /\ ~FinalProposed /\ ~EnvironmentFailed) =>
       /\ dyn.pc = "returned"
       /\ dyn.answer = None
       /\ Len(dyn.past_steps) = dyn.max_steps
       /\ \A k \in DOMAIN dyn.past_steps : dyn.past_steps[k].step = dyn.proposals[k]

-----------------------------------------------------------------------------
(* static_solve                                                            *)

\* The user's latest answer, stripped and lower-cased ("" before any).
LatestAnswer ==
  IF stat.typed = <<>> THEN <<>> ELSE Lower(Strip(stat.typed[Len(stat.typed)]))

SaidYes == stat.typed # <<>> /\ LatestAnswer \in { <<"y">>, <<"y", "e", "s">> }

SaidNo == stat.typed # <<>> /\ LatestAnswer \in { <<"n">>, <<"n", "o">> }

SaidOther == stat.typed # <<>> /\ ~SaidYes /\ ~SaidNo

\* C38: no action is invoked before the user answers yes; a no returns
\* "Plan rejected." with nothing invoked; any other answer only leads to a
\* revised plan being generated; after the approval the steps are invoked in
\* plan order, and the first one that raises ends the call with "Execution
\* failed at step i." (i its index), no later step being invoked.
C38_NothingRunsBeforeApproval ==
  /\ (stat.invoked # <<>>) => SaidYes
  /\ SaidNo => (stat.pc = "returned" /\ stat.ret = <<"Plan rejected.">> /\ stat.invoked = <<>>)
  /\ SaidOther =>
       /\ stat.invoked = <<>>
       /\ stat.pc \in {"generate", "ask", "raised"}
       /\ stat.user_feedback = Strip(stat.typed[Len(stat.typed)])
       /\ (stat.pc = "ask") => stat.revising
  /\ \A j \in DOMAIN stat.invoked :
       /\ j <= Len(stat.current_plan.steps)
       /\ stat.invoked[j] = stat.current_plan.steps[j]
  /\ (stat.cause = "action") =>
       /\ stat.pc = "returned"
       /\ stat.ret = <<"Execution failed at step ", IndexStr(Len(stat.invoked) - 1), ".">>
       /\ Len(stat.past_steps) = Len(stat.invoked) - 1

\* After one round of feedback the user approved a two-step plan; its
\* first step returned and its second raised.
C38_Witness ==
  /\ Len(stat.typed) = 2
  /\ SaidYes
  /\ stat.cause = "action"
  /\ Len(stat.invoked) = 2
  /\ Len(stat.past_steps) = 1
  /\ stat.ret = <<"Execution failed at step ", "1", ".">>

-----------------------------------------------------------------------------
(* The stages of the Streamlit workflow                                    *)

\* C36: the stage becomes 'executing' only from 'feedback' and only by the
\* user's approval, and the plan that is executed is the plan the user
\* approved; in the stages 'feedback' and 'executing' a current plan is
\* set; a rejection or a start-over leaves the stage 'input' and no current
\* plan.
C36_ExecutionNeedsApproval ==
  /\ []((app.workflow_stage \in {"feedback", "executing"}) =>
          (app.current_plan # NoDemoPlan))
  /\ []((app.event \in {"reject", "start_over"}) =>
          (app.workflow_stage = "input" /\ app.current_plan = NoDemoPlan))
  /\ [][(app.workflow_stage # "executing" /\ app'.workflow_stage = "executing") =>
          (app.workflow_stage = "feedback" /\ app'.event = "approve")]_vars
  /\ [][((app.execution_results # app'.execution_results /\ app'.execution_results # <<>>)
            \/ (app.final_answer # app'.final_answer /\ app'.final_answer # <<>>)) =>
          (app.workflow_stage = "executing" /\ app.event = "approve"
             /\ app.current_plan # NoDemoPlan)]_vars
  /\ []((app.workflow_stage = "executing") =>
          (app.approved_plan = app.current_plan))

====
